---- MODULE Spec2Model ----
(***************************************************************************)
(* Model of wai.common.json.configuration: Property storage keyed by the   *)
(* owning object, the union properties (OfProperty family), the ArrayProxy *)
(* collection and the Configuration aggregate.                             *)
(***************************************************************************)
EXTENDS Integers, Sequences, FiniteSets, TLC

VARIABLES
    cls,            \* the Configuration subclass: definition status and declarations
    values,         \* Property.__values: per property object, owner -> stored value
    instance_keys,  \* OfProperty.__instance_keys: per union property, owner -> placeholder
    key_map,        \* MapProxy.__key_map of each instance's _additional_properties
    inst_dict,      \* the instance __dict__ (attributes set by object.__setattr__)
    constructed,    \* whether Configuration.__init__ has completed for the instance
    last,           \* the last operation called and whether it raised
    rt,             \* result of the last from_raw_json(c.to_raw_json())
    arr,            \* the ArrayProperty declaration (closure values of ClosureArrayProxy)
    key_list,       \* ArrayProxy.__key_list of the stored proxy
    map_proxy,      \* the value stored for the MapProperty: MapProxy.__key_map
    validator,      \* a JSONValidatorBase subclass and its last validation call
    absent_type,    \* AbsentType.__instance and what AbsentType() returned last
    pool,           \* a multiprocessing Pool, its task queue and a run_on_all call
    memo,           \* a Memoiser: the memo files on disk and its last call
    interval,       \* an Interval and the number tested against it
    switch,         \* context_stacks of _switch.py and each thread's last call
    twd,            \* a TwoWayDict: its forward and reverse dicts
    props,          \* property objects created by declarations: name, optionality
    classes,        \* Configuration subclasses: status and class namespace
    schema_cache,   \* Configuration.__schema_cache: class -> schema
    ev              \* the last declaration-time call and whether it raised

vars == <<cls, values, instance_keys, key_map, inst_dict, constructed, last, rt,
          arr, key_list, map_proxy, validator, absent_type, pool, memo,
          interval, switch, twd, props, classes, schema_cache, ev>>

\* The variables of the declarations, and those of the instances
declVars == <<props, classes, schema_cache, ev>>
instVars == <<cls, values, instance_keys, key_map, inst_dict, constructed,
              last, rt, arr, key_list, map_proxy, validator, absent_type>>

\* The variables of the utility modules
utilVars == <<pool, memo, interval, switch, twd>>

----------------------------------------------------------------------------
(* Bounds *)

MaxNum == 1         \* JSON numbers 0..MaxNum
MaxObj == 9         \* object identities 0..MaxObj
MaxLen == 2         \* longest list handed to an array operation
MaxMax == 1         \* largest max_elements / min_elements declared

----------------------------------------------------------------------------
(* Values.  A value is a pair <<tag, n>>. *)

JNum(n) == <<"num", n>>
JStr == <<"str", 0>>
JBool == <<"bool", 0>>
Absent == <<"absent", 0>>       \* the Absent singleton
Unset == <<"unset", 0>>         \* owner not a key of the WeakKeyDictionary
Missing == <<"missing", 0>>     \* key not in a dict

Numbers == {JNum(n) : n \in 0..MaxNum}
Vals == Numbers \cup {JStr, JBool}

IsInt(v) == v[1] = "num"        \* isinstance(value, int)

(* Object identities: the Configuration instance, the instance made by     *)
(* from_raw_json, and DummyInstance placeholders.                          *)
Objs == 0..MaxObj
Inst0 == 0
Inst1 == 1
Insts == {Inst0, Inst1}
Placeholders == Objs \ Insts
NoObj == 0 - 1

----------------------------------------------------------------------------
(* Declarations *)

Fields == {"a", "b", "u"}
FieldOrder == <<"a", "b", "u">>         \* dir(cls) is sorted
Keys == {"a", "b", "u", "x"}
KeyOrder == <<"a", "b", "u", "x">>

UnionIds == {"u", "u0"}
PropIds == {"a", "b", "u", "u0", "u1", "u2", "u00", "u01", "ap", "e"}

CandDefs == {"Number", "Number0", "String", "Bool", "OneOfSB", "OneOfNS"}
CandIds == <<"u0", "u1", "u2">>

NoClass == [status |-> "none",
            name |-> [f \in Fields |-> f],
            optional |-> [f \in Fields |-> FALSE],
            ukind |-> "oneof",
            ucands |-> <<"Number", "String">>,
            strict |-> FALSE]

DefOfNeverStrict(p) ==
    CASE p \in {"a", "b", "e"} -> "Number"
      [] p = "ap" -> "Raw"
      [] p = "u" -> cls.ukind
      [] p = "u0" -> IF Len(cls.ucands) >= 1 THEN cls.ucands[1] ELSE "Number"
      [] p = "u1" -> IF Len(cls.ucands) >= 2 THEN cls.ucands[2] ELSE "Number"
      [] p = "u2" -> IF Len(cls.ucands) >= 3 THEN cls.ucands[3] ELSE "Number"
      [] p = "u00" -> IF cls.ucands[1] = "OneOfNS" THEN "Number" ELSE "String"
      [] p = "u01" -> IF cls.ucands[1] = "OneOfNS" THEN "String" ELSE "Bool"

\* The declaration behind a property object; the additional properties
\* are a RawProperty over cls.additional_properties_validation()
DefOf(p) ==
    CASE p \in {"a", "b", "e"} -> "Number"
      [] p = "ap" -> IF cls.strict THEN "Fail" ELSE "Raw"
      [] p = "u" -> cls.ukind
      [] p = "u0" -> IF Len(cls.ucands) >= 1 THEN cls.ucands[1] ELSE "Number"
      [] p = "u1" -> IF Len(cls.ucands) >= 2 THEN cls.ucands[2] ELSE "Number"
      [] p = "u2" -> IF Len(cls.ucands) >= 3 THEN cls.ucands[3] ELSE "Number"
      [] p = "u00" -> IF cls.ucands[1] = "OneOfNS" THEN "Number" ELSE "String"
      [] p = "u01" -> IF cls.ucands[1] = "OneOfNS" THEN "String" ELSE "Bool"

Kind(p) ==
    CASE DefOf(p) \in {"oneof", "OneOfSB", "OneOfNS"} -> "oneof"
      [] DefOf(p) = "allof" -> "allof"
      [] DefOf(p) = "anyof" -> "anyof"
      [] OTHER -> "leaf"

IsUnion(p) == Kind(p) # "leaf"

\* OfProperty.__sub_properties
sub_properties(p) ==
    CASE p = "u" -> SubSeq(CandIds, 1, Len(cls.ucands))
      [] p = "u0" /\ DefOf(p) \in {"OneOfSB", "OneOfNS"} -> <<"u00", "u01">>
      [] OTHER -> <<>>

\* Property.is_optional
is_optional(p) == IF p \in Fields THEN cls.optional[p] ELSE FALSE

\* Property.name
name(p) == IF p \in Fields THEN cls.name[p] ELSE ""

\* The values the JSON schema of a leaf property accepts
SchemaAccepts(d) ==
    CASE d = "Number" -> Numbers
      [] d = "Number0" -> {JNum(0)}
      [] d = "String" -> {JStr}
      [] d = "Bool" -> {JBool}
      [] d = "Raw" -> Vals
      [] d = "Fail" -> {}
      [] OTHER -> {}

----------------------------------------------------------------------------
(* The heap: the storage of all property objects.  A record                *)
(* [values, ikeys, kmap, used]; used is the set of objects alive.          *)

\* Objects an object refers to: placeholders of union properties and of
\* the additional-properties map
Refs(h, o) ==
    {h.ikeys[p][o] : p \in {q \in UnionIds : h.ikeys[q][o] # NoObj}}
    \cup (IF o \in Insts
          THEN {h.kmap[o][k] : k \in {j \in Keys : h.kmap[o][j] # NoObj}}
          ELSE {})

RECURSIVE Reach(_, _)
Reach(h, R) ==
    LET R2 == R \cup UNION {Refs(h, o) : o \in R}
    IN IF R2 = R THEN R ELSE Reach(h, R2)

\* WeakKeyDictionary: entries of objects no longer referenced disappear
Collect(h, roots) ==
    LET live == Reach(h, roots)
    IN [values |-> [p \in PropIds |-> [o \in Objs |->
                        IF o \in live THEN h.values[p][o] ELSE Unset]],
        ikeys |-> [p \in UnionIds |-> [o \in Objs |->
                        IF o \in live THEN h.ikeys[p][o] ELSE NoObj]],
        kmap |-> [i \in Insts |-> [k \in Keys |->
                        IF i \in live THEN h.kmap[i][k] ELSE NoObj]],
        used |-> live]

\* DummyInstance(): a new object, distinct from every object alive
DummyInstance(h) ==
    CHOOSE o \in Placeholders \ h.used :
        \A o2 \in Placeholders \ h.used : o <= o2

Alloc(h, o) == [h EXCEPT !.used = @ \cup {o}]

Ok(h, ret) == [ok |-> TRUE, h |-> h, ret |-> ret]
Raise(h) == [ok |-> FALSE, h |-> h, ret |-> Absent]

----------------------------------------------------------------------------
(* Property *)

_set_unchecked_shared(h, p, instance, value) ==
    [h EXCEPT !.values[p] = [o \in Objs |-> value]]

\* Property._set_unchecked, with the OfProperty override that discards the
\* instance key when the value becomes Absent
_set_unchecked(h, p, instance, value) ==
    LET h1 == IF IsUnion(p) /\ value = Absent /\ h.ikeys[p][instance] # NoObj
              THEN [h EXCEPT !.ikeys[p][instance] = NoObj]
              ELSE h
    IN [h1 EXCEPT !.values[p][instance] = value]

\* OneOfProperty.choose_subproperty: the index, or NoObj when it raises
RECURSIVE OneOfLoop(_, _, _)
OneOfLoop(successes, i, index) ==
    IF i > Len(successes)
    THEN index
    ELSE IF successes[i]
         THEN IF index >= 0 THEN NoObj - 1 ELSE OneOfLoop(successes, i + 1, i - 1)
         ELSE OneOfLoop(successes, i + 1, index)

OneOfChoose(successes) ==
    LET index == OneOfLoop(successes, 1, NoObj)
    IN IF index < 0 THEN NoObj ELSE index

\* AllOfProperty.choose_subproperty
AllOfChoose(successes) ==
    IF \A i \in 1..Len(successes) : successes[i] THEN 0 ELSE NoObj

\* AnyOfProperty defines choose_current_property, not choose_subproperty:
\* the inherited abstract method body returns None, which is not an index
AnyOfChoose(successes) == NoObj

choose_subproperty(p, successes) ==
    CASE Kind(p) = "oneof" -> OneOfChoose(successes)
      [] Kind(p) = "allof" -> AllOfChoose(successes)
      [] OTHER -> AnyOfChoose(successes)

RECURSIVE validate_value(_, _, _, _), PropSet(_, _, _, _), TryAll(_, _, _, _, _)

\* The lists the loop of OfProperty.select_from_valid_subproperties
\* builds: the validated value of a sub-property (Absent where it raised)
\* goes before those of the sub-properties after it
Collected(r, rest) ==
    [h |-> rest.h, vals |-> <<IF r.ok THEN r.ret ELSE Absent>> \o rest.vals]

\* One pass of that loop: r is the outcome of validate_value on
\* sub-property i, and the loop goes on in the heap it left
TryNext(r, p, instance, value, i) ==
    Collected(r, TryAll(r.h, p, instance, value, i + 1))

\* The loop of OfProperty.select_from_valid_subproperties: the validated
\* value of every sub-property from index i on, Absent where it raised
TryAll(h, p, instance, value, i) ==
    IF i > Len(sub_properties(p))
    THEN [h |-> h, vals |-> <<>>]
    ELSE TryNext(validate_value(h, sub_properties(p)[i], instance, value),
                 p, instance, value, i)

\* The end of OfProperty.select_from_valid_subproperties, after the loop
\* has collected t: ret is <<value, index>>
Selected(t, p) ==
    LET sel == choose_subproperty(p, [i \in 1..Len(t.vals) |-> t.vals[i] # Absent])
    IN IF sel = NoObj \/ ~(0 <= sel /\ sel < Len(sub_properties(p)))
       THEN [Raise(t.h) EXCEPT !.ret = <<Absent, 0>>]
       ELSE IF t.vals[sel + 1] = Absent
            THEN [Raise(t.h) EXCEPT !.ret = <<Absent, 0>>]
            ELSE Ok(t.h, <<t.vals[sel + 1], sel>>)

\* OfProperty.select_from_valid_subproperties: ret is <<value, index>>
select_from_valid_subproperties(h, p, instance, value) ==
    Selected(TryAll(h, p, instance, value, 1), p)

\* OfProperty.validate_value, last statements: r is the outcome of the set
\* on the chosen sub-property under the placeholder key
KeepKey(r, key, index, p, instance) ==
    IF r.ok
    THEN Ok([r.h EXCEPT !.ikeys[p][instance] = key], JNum(index))
    ELSE Raise(r.h)

\* OfProperty.validate_value after the selection s
SetSelected(s, p, instance) ==
    IF ~s.ok
    THEN Raise(s.h)
    ELSE KeepKey(PropSet(Alloc(s.h, DummyInstance(s.h)),
                         sub_properties(p)[s.ret[2] + 1],
                         DummyInstance(s.h), s.ret[1]),
                 DummyInstance(s.h), s.ret[2], p, instance)

OfValidateDiscardOnFail(h, p, instance, value) ==
    LET s == select_from_valid_subproperties(h, p, instance, value)
        key == DummyInstance(s.h)
        r == PropSet(Alloc(s.h, key), sub_properties(p)[s.ret[2] + 1], key, s.ret[1])
    IN IF ~s.ok
       THEN Raise([s.h EXCEPT !.ikeys[p][instance] = NoObj])
       ELSE IF r.ok
            THEN Ok([r.h EXCEPT !.ikeys[p][instance] = key], JNum(s.ret[2]))
            ELSE Raise(r.h)

\* OfProperty.validate_value: the selected value is set on the chosen
\* sub-property under a new placeholder, which becomes the instance key;
\* the value stored for the union property is the index
OfValidateValue(h, p, instance, value) ==
    SetSelected(select_from_valid_subproperties(h, p, instance, value),
                p, instance)

\* RawProperty.validate_value (the schema-backed leaf properties): the
\* value is checked against the schema and stored as it is
RawValidateValue(h, p, value) ==
    IF value \in SchemaAccepts(DefOf(p)) THEN Ok(h, value) ELSE Raise(h)

\* Property.validate_value, by kind of property
validate_value(h, p, instance, value) ==
    IF IsUnion(p)
    THEN OfValidateValue(h, p, instance, value)
    ELSE RawValidateValue(h, p, value)

\* Property.__set__, last statement: r is the outcome of validate_value,
\* whose exception propagates
StoreValidated(r, p, instance) ==
    IF r.ok THEN Ok(_set_unchecked(r.h, p, instance, r.ret), Absent)
    ELSE Raise(r.h)

PropSetAbsentAllowed(h, p, instance, value) ==
    IF value # Absent
    THEN LET r == validate_value(h, p, instance, value)
         IN IF r.ok THEN Ok(_set_unchecked(r.h, p, instance, r.ret), Absent)
            ELSE Raise(r.h)
    ELSE Ok(_set_unchecked(h, p, instance, value), Absent)

PropSetStoreRejected(h, p, instance, value) ==
    IF value # Absent
    THEN LET r == validate_value(h, p, instance, value)
         IN IF r.ok THEN Ok(_set_unchecked(r.h, p, instance, r.ret), Absent)
            ELSE Raise(_set_unchecked(r.h, p, instance, Absent))
    ELSE IF ~is_optional(p)
         THEN Raise(h)
         ELSE Ok(_set_unchecked(h, p, instance, value), Absent)

\* Property.__set__
PropSet(h, p, instance, value) ==
    IF value # Absent
    THEN StoreValidated(validate_value(h, p, instance, value), p, instance)
    ELSE IF ~is_optional(p)
         THEN Raise(h)
         ELSE Ok(_set_unchecked(h, p, instance, value), Absent)

\* Property.__get__ / OfProperty.__get__: Unset stands for AttributeError
RECURSIVE PropGet(_, _, _)
PropGet(h, p, instance) ==
    LET value == h.values[p][instance]
    IN IF value = Unset THEN Unset
       ELSE IF IsUnion(p)
            THEN IF IsInt(value)
                 THEN PropGet(h, sub_properties(p)[value[2] + 1], h.ikeys[p][instance])
                 ELSE Absent
            ELSE value

\* Property.get_as_raw_json: leaf values are their own JSON
get_as_raw_json(h, p, instance) == PropGet(h, p, instance)

----------------------------------------------------------------------------
(* Declaring the class *)

\* OfProperty.__init__ reached through each subclass constructor: TRUE
\* when the declaration raises (fewer than two sub-properties).  AnyOfProperty passes its candidates on as
\* separate positional arguments (one candidate is taken as the iterable,
\* a second collides with schema_function, more are too many), and it is
\* abstract because it does not define choose_subproperty.
OfDeclarationRaises(kind, cands) ==
    IF kind = "anyof"
    THEN TRUE
    ELSE Len(cands) < 2

\* Property.__set_name__: an empty name inherits the attribute name
SetName(explicit, f) == IF explicit = "" THEN f ELSE explicit

\* Configuration.__init_subclass__: the property names must be unique
DuplicateNames(names) ==
    \E f \in Fields, g \in Fields : f # g /\ names[f] = names[g]

\* The shapes of class the two specifications declare
ConfigShapes ==
    [name : {n \in [Fields -> {"", "a", "b", "x"}] :
                n["a"] \in {"", "b", "x"} /\ n["b"] \in {"", "a", "x"} /\ n["u"] = ""},
     optional : {o \in [Fields -> BOOLEAN] : o["u"]},
     ukind : {"oneof"},
     ucands : {<<"Number", "String">>},
     strict : {FALSE}]

\* The same declarations in a subtype of StrictConfiguration
StrictShapes ==
    {[shape EXCEPT !.strict = TRUE] : shape \in ConfigShapes}

UnionCands ==
    {<<"Number">>,
     <<"Number", "String">>,
     <<"Number", "Number0">>,
     <<"OneOfSB", "Number">>,
     <<"OneOfSB", "String">>,
     <<"OneOfNS", "Bool">>,
     <<"String", "Number0", "Number">>}

\* Classes with an optional leaf and a union property, plain and nested
IsolationShapes ==
    {shape \in [name : {[f \in Fields |-> ""]},
                optional : {o \in [Fields -> BOOLEAN] : o["a"] /\ ~o["b"]},
                ukind : {"oneof"},
                ucands : UnionCands,
                strict : {FALSE}] :
        shape.ucands \in {<<"Number", "String">>, <<"OneOfSB", "Number">>}}

IsolationInitialValues ==
    {iv \in [Keys -> Vals \cup {Missing}] :
        /\ iv["a"] = Missing
        /\ iv["b"] = JNum(0)
        /\ iv["x"] = Missing}

UnionShapes ==
    [name : {[f \in Fields |-> ""]},
     optional : {o \in [Fields -> BOOLEAN] : o["a"] /\ ~o["b"]},
     ukind : {"oneof", "allof", "anyof"},
     ucands : UnionCands,
     strict : {FALSE}]

NoIv == [k \in Keys |-> Missing]
Last(op, key, val, raised) ==
    [op |-> op, key |-> key, val |-> val, raised |-> raised, iv |-> NoIv,
     list |-> <<>>, owner |-> NoObj]
NoLast == Last("none", "", Absent, FALSE)
NoRt == [status |-> "none", same |-> FALSE]

\* The class statement: the property declarations in the class body,
\* __set_name__ for each, then __init_subclass__
DefineClass(shapes) ==
    /\ cls.status = "none"
    /\ \E shape \in shapes :
        LET names == [f \in Fields |-> SetName(shape.name[f], f)]
            raises == OfDeclarationRaises(shape.ukind, shape.ucands)
                      \/ DuplicateNames(names)
        IN /\ cls' = [status |-> IF raises THEN "error" ELSE "defined",
                      name |-> names,
                      optional |-> shape.optional,
                      ukind |-> shape.ukind,
                      ucands |-> shape.ucands,
                      strict |-> shape.strict]
           /\ last' = Last("define",
                            IF OfDeclarationRaises(shape.ukind, shape.ucands)
                            THEN "u" ELSE "",
                            Absent, raises)
    /\ UNCHANGED declVars
    /\ UNCHANGED utilVars
    /\ UNCHANGED <<map_proxy, validator, absent_type>>
    /\ UNCHANGED <<values, instance_keys, key_map, inst_dict, constructed, rt,
                   arr, key_list>>

----------------------------------------------------------------------------
(* Configuration *)

Heap(roots) ==
    [values |-> values, ikeys |-> instance_keys, kmap |-> key_map,
     used |-> Reach([ikeys |-> instance_keys, kmap |-> key_map], roots)]

MapKeyForgotten(r, instance, key, d) ==
    IF r.ok THEN Ok(r.h, Absent) ELSE Raise(r.h)

\* MapProxy.__setitem__, last statement: r is the outcome of the set on
\* the value property under the placeholder d
MapKeepKey(r, instance, key, d) ==
    IF r.ok THEN Ok([r.h EXCEPT !.kmap[instance][key] = d], Absent)
    ELSE Raise(r.h)

\* MapProxy.__setitem__ on the additional-properties map of an instance
MapSetItem(h, instance, key, value) ==
    MapKeepKey(PropSet(Alloc(h, DummyInstance(h)), "ap", DummyInstance(h), value),
               instance, key, DummyInstance(h))

\* MapProxy.update(**F): keys in the order of the keyword arguments
RECURSIVE MapUpdate(_, _, _, _)
MapUpdateNext(r, instance, F, i) ==
    IF r.ok THEN MapUpdate(r.h, instance, F, i + 1) ELSE r

MapUpdate(h, instance, F, i) ==
    IF i > Len(KeyOrder)
    THEN Ok(h, Absent)
    ELSE IF F[KeyOrder[i]] = Missing
         THEN MapUpdate(h, instance, F, i + 1)
         ELSE MapUpdateNext(MapSetItem(h, instance, KeyOrder[i], F[KeyOrder[i]]),
                            instance, F, i)

\* Configuration.__init__, first loop: a value given under both the
\* attribute name and the property name
SpecifiedTwice(initial_values) ==
    \E f \in Fields :
        /\ initial_values[f] # Missing
        /\ initial_values[name(f)] # Missing
        /\ name(f) \notin Fields

\* The key Configuration.__init__ pops for an attribute
PopKey(initial_values, f) ==
    IF initial_values[f] # Missing THEN f ELSE name(f)

\* Property.set_from_raw_json exists on the schema-backed (leaf)
\* properties only, where it is __set__
set_from_raw_json(h, p, instance, value) ==
    IF IsUnion(p) THEN Raise(h) ELSE PropSet(h, p, instance, value)

\* Configuration.__init__, second loop, from attribute i on; ret is the
\* initial values left over
RECURSIVE SetInitial(_, _, _, _)

\* The try / except of that loop: r is the outcome of __set__; when it
\* raised, the value is set through set_from_raw_json instead
SetOrParse(r, f, instance, initial_value) ==
    IF r.ok THEN r ELSE set_from_raw_json(r.h, f, instance, initial_value)

\* The loop goes on with the next attribute unless r raised
SetInitialNext(r, instance, rest, i) ==
    IF r.ok THEN SetInitial(r.h, instance, rest, i + 1) ELSE Raise(r.h)

SetInitial(h, instance, initial_values, i) ==
    IF i > Len(FieldOrder)
    THEN Ok(h, initial_values)
    ELSE LET f == FieldOrder[i]
             k == PopKey(initial_values, f)
             initial_value == IF initial_values[k] = Missing THEN Absent
                              ELSE initial_values[k]
         IN SetInitialNext(
                SetOrParse(PropSet(h, f, instance, initial_value),
                           f, instance, initial_value),
                instance, [initial_values EXCEPT ![k] = Missing], i)

\* Configuration.__init__, last statement: r.ret is what the loop left of
\* the initial values, which goes to the additional properties
init_additional_properties(r, instance) ==
    IF r.ok THEN MapUpdate(r.h, instance, r.ret, 1) ELSE Raise(r.h)

\* Configuration.__init__
ConfigInit(h, instance, initial_values) ==
    IF SpecifiedTwice(initial_values)
    THEN Raise(h)
    ELSE init_additional_properties(
             SetInitial(h, instance, initial_values, 1), instance)

\* The initial values handed to the constructor in each specification
ConfigInitialValues ==
    {iv \in [Keys -> Numbers \cup {JStr, Missing}] :
        /\ iv["b"] # JStr
        /\ iv["u"] = Missing}

UnionInitialValues ==
    {iv \in [Keys -> Vals \cup {Missing}] :
        /\ iv["a"] \in {Missing, JNum(0)}
        /\ iv["b"] \in {Missing, JNum(0)}
        /\ iv["x"] = Missing}

Commit(h, roots) ==
    \E g \in {Collect(h, roots)} :
       /\ values' = g.values
       /\ instance_keys' = g.ikeys
       /\ key_map' = g.kmap

Construct(inits) ==
    /\ cls.status = "defined"
    /\ ~constructed
    /\ \E iv \in inits :
        \E r \in {ConfigInit(Heap({Inst0}), Inst0, iv)} :
           /\ constructed' = r.ok
           /\ Commit(r.h, IF r.ok THEN {Inst0} ELSE {})
           /\ last' = [Last("construct", "", Absent, ~r.ok) EXCEPT !.iv = iv]
    /\ rt' = NoRt
    /\ UNCHANGED declVars
    /\ UNCHANGED utilVars
    /\ UNCHANGED <<map_proxy, validator, absent_type>>
    /\ UNCHANGED <<cls, inst_dict, arr, key_list>>

\* hasattr(self, key): a declared property that has a value, an entry of
\* the instance __dict__, or (through __getattr__) a key of the
\* additional properties
hasattr(h, instance, key) ==
    \/ key \in Fields /\ PropGet(h, key, instance) # Unset
    \/ inst_dict[key] # Unset
    \/ h.kmap[instance][key] # NoObj

\* Attribute read instance.key: the property (a data descriptor) when key
\* is declared, else the instance __dict__, else Configuration.__getattr__
\* on the additional properties; dict is the instance __dict__ and Unset
\* stands for AttributeError.  An
\* AttributeError of the property also ends in __getattr__.
getattr(h, dict, instance, key) ==
    IF key \in Fields /\ PropGet(h, key, instance) # Unset
    THEN PropGet(h, key, instance)
    ELSE IF key \notin Fields /\ dict[key] # Unset
         THEN dict[key]
         ELSE IF h.kmap[instance][key] # NoObj
              THEN PropGet(h, "ap", h.kmap[instance][key])
              ELSE Unset

\* A data descriptor takes the attribute: nothing goes to the instance
\* __dict__
NoDictEntry(r) == IF r.ok THEN Ok(r.h, Unset) ELSE Raise(r.h)

\* Configuration.__setattr__, last statement (super().__setattr__): r is
\* the outcome of the statements before it
SuperSetAttr(r, instance, key, value) ==
    IF ~r.ok
    THEN Raise(r.h)
    ELSE IF key \in Fields
         THEN NoDictEntry(PropSet(r.h, key, instance, value))
         ELSE Ok(r.h, value)

\* Configuration.__setattr__: ret is the value for the instance __dict__
\* (Unset when the attribute is a declared property)
ConfigSetAttr(h, instance, key, value) ==
    SuperSetAttr(IF ~hasattr(h, instance, key) \/ h.kmap[instance][key] # NoObj
                 THEN MapSetItem(h, instance, key, value)
                 ELSE Ok(h, Absent),
                 instance, key, value)

SetAttr(keys, vals) ==
    /\ constructed
    /\ \E key \in keys, value \in vals :
        \E r \in {ConfigSetAttr(Heap({Inst0}), Inst0, key, value)} :
           /\ Commit(r.h, {Inst0})
           /\ inst_dict' = IF r.ok /\ r.ret # Unset
                           THEN [inst_dict EXCEPT ![key] = r.ret]
                           ELSE inst_dict
           /\ last' = Last("set", key, value, ~r.ok)
    /\ rt' = NoRt
    /\ UNCHANGED declVars
    /\ UNCHANGED utilVars
    /\ UNCHANGED <<map_proxy, validator, absent_type>>
    /\ UNCHANGED <<cls, constructed, arr, key_list>>

\* The instances of the class that are alive: a constructed instance has
\* a value (Absent included) for every declared property
Live == {i \in Insts : values["a"][i] # Unset}

\* A second instance of the class (or of a subclass, which inherits the
\* same property objects) is constructed while the first is alive
ConstructOther(inits) ==
    /\ constructed
    /\ Inst1 \notin Live
    /\ \E iv \in inits :
        \E r \in {ConfigInit(Alloc(Heap({Inst0}), Inst1), Inst1, iv)} :
           /\ Commit(r.h, IF r.ok THEN Insts ELSE {Inst0})
           /\ last' = [Last("construct", "", Absent, ~r.ok)
                          EXCEPT !.iv = iv, !.owner = Inst1]
    /\ rt' = NoRt
    /\ UNCHANGED declVars
    /\ UNCHANGED utilVars
    /\ UNCHANGED <<map_proxy, validator, absent_type>>
    /\ UNCHANGED <<cls, inst_dict, constructed, arr, key_list>>

\* instance.key = value for a declared property, on any instance alive
SetAttrOn(keys, vals) ==
    /\ constructed
    /\ \E instance \in Live, key \in keys \cap Fields, value \in vals :
        \E r \in {ConfigSetAttr(Heap(Live), instance, key, value)} :
           /\ Commit(r.h, Live)
           /\ last' = [Last("set", key, value, ~r.ok) EXCEPT !.owner = instance]
    /\ rt' = NoRt
    /\ UNCHANGED declVars
    /\ UNCHANGED utilVars
    /\ UNCHANGED <<map_proxy, validator, absent_type>>
    /\ UNCHANGED <<cls, inst_dict, constructed, arr, key_list>>

\* Property.__delete__ through del instance.attribute
DelAttr(keys) ==
    /\ constructed
    /\ \E key \in keys :
        \E r \in {PropSet(Heap({Inst0}), key, Inst0, Absent)} :
           /\ Commit(r.h, {Inst0})
           /\ last' = Last("del", key, Absent, ~r.ok)
    /\ rt' = NoRt
    /\ UNCHANGED declVars
    /\ UNCHANGED utilVars
    /\ UNCHANGED <<map_proxy, validator, absent_type>>
    /\ UNCHANGED <<cls, inst_dict, constructed, arr, key_list>>

----------------------------------------------------------------------------
(* Serialisation *)

\* The declared property whose name() is k
PropertyNamed(k) == CHOOSE f \in Fields : name(f) = k
IsPropertyName(k) == \E f \in Fields : name(f) = k

\* MapProxy.__getitem__ on the additional properties
Additional(h, instance, k) ==
    IF h.kmap[instance][k] = NoObj THEN Missing
    ELSE PropGet(h, "ap", h.kmap[instance][k])

SerialiseKeepsAbsent(h, instance) ==
    [k \in Keys |->
        IF IsPropertyName(k)
        THEN get_as_raw_json(h, PropertyNamed(k), instance)
        ELSE Missing]

\* Configuration._serialise_to_raw_json
SerialiseNoOverlay(h, instance) ==
    [k \in Keys |->
        IF IsPropertyName(k)
           /\ get_as_raw_json(h, PropertyNamed(k), instance) # Absent
        THEN get_as_raw_json(h, PropertyNamed(k), instance)
        ELSE Missing]

_serialise_to_raw_json(h, instance) ==
    LET json == SerialiseNoOverlay(h, instance)
    IN [k \in Keys |->
            IF Additional(h, instance, k) # Missing
            THEN Additional(h, instance, k)
            ELSE json[k]]

\* Whether a raw JSON value matches the schema of a property
\* (get_json_validation_schema: one_of / all_of / any_of of the sub-schemas)
RECURSIVE MatchesSchema(_, _)
MatchesSchema(p, v) ==
    LET subs == sub_properties(p)
        hits == {i \in 1..Len(subs) : MatchesSchema(subs[i], v)}
    IN CASE Kind(p) = "oneof" -> Cardinality(hits) = 1
         [] Kind(p) = "allof" -> Cardinality(hits) = Len(subs)
         [] Kind(p) = "anyof" -> hits # {}
         [] OTHER -> v \in SchemaAccepts(DefOf(p))

\* JSONValidatorBase.validate_raw_json with the schema of
\* Configuration.get_json_validation_schema: TRUE when it does not raise
validate_raw_json(json) ==
    /\ \A f \in Fields : ~is_optional(f) => json[name(f)] # Missing
    /\ \A k \in Keys :
        json[k] # Missing =>
            IF IsPropertyName(k) THEN MatchesSchema(PropertyNamed(k), json[k])
            ELSE MatchesSchema("ap", json[k])

\* What can be observed of an instance: each declared property and the
\* additional properties
Observable(h, instance) ==
    [fields |-> [f \in Fields |-> PropGet(h, f, instance)],
     additional |-> [k \in Keys |-> Additional(h, instance, k)]]

\* from_raw_json(c.to_raw_json()): to_raw_json is the validated
\* _serialise_to_raw_json, from_raw_json validates and then calls
\* _deserialise_from_raw_json, which is cls(**raw_json).  The copy is
\* dropped once it has been compared.
RoundTrip ==
    /\ constructed
    /\ \E json \in {_serialise_to_raw_json(Heap({Inst0}), Inst0)} :
       \E r \in {ConfigInit(Alloc(Heap({Inst0}), Inst1), Inst1, json)} :
          /\ rt' = IF ~validate_raw_json(json)
                   THEN [status |-> "invalid", same |-> FALSE]
                   ELSE IF ~r.ok
                        THEN [status |-> "raised", same |-> FALSE]
                        ELSE [status |-> "ok",
                              same |-> Observable(r.h, Inst1)
                                       = Observable(Heap({Inst0}), Inst0)]
          /\ last' = Last("roundtrip", "", Absent,
                          ~validate_raw_json(json) \/ ~r.ok)
    /\ UNCHANGED declVars
    /\ UNCHANGED utilVars
    /\ UNCHANGED <<map_proxy, validator, absent_type>>
    /\ UNCHANGED <<cls, values, instance_keys, key_map, inst_dict, constructed,
                   arr, key_list>>

----------------------------------------------------------------------------
(* ArrayProxy, with element_property a NumberProperty *)

NoneMax == 0 - 1            \* max_elements is None

ElemVals == Numbers \cup {JStr, Absent}
Lists == UNION {[1..n -> ElemVals] : n \in 0..MaxLen}
Indices == (0 - MaxLen)..MaxLen

Range(seq) == {seq[i] : i \in 1..Len(seq)}

ArrOk(h, kl) == [ok |-> TRUE, h |-> h, kl |-> kl]
ArrRaise(h, kl) == [ok |-> FALSE, h |-> h, kl |-> kl]

\* ArrayProxy.__iter__: the element values in order
Elements(h, kl) == [i \in 1..Len(kl) |-> PropGet(h, "e", kl[i])]

\* ArrayProxy.__contains__ (values compare equal)
Contains(h, kl, value) == \E i \in 1..Len(kl) : PropGet(h, "e", kl[i]) = value

\* list.insert and list.pop index arithmetic
InsertAt(len, index) ==
    IF index < 0
    THEN (IF index + len < 0 THEN 0 ELSE index + len)
    ELSE (IF index > len THEN len ELSE index)

PopAt(len, index) == IF index < 0 THEN index + len ELSE index

InRange(len, index) == 0 <= PopAt(len, index) /\ PopAt(len, index) < len

\* The key list after a mutation that sets a value on the element
\* property first: r is the outcome of that set, changed the list the
\* mutation builds, kl the list as it was
KeyList(r, changed, kl) ==
    IF r.ok THEN ArrOk(r.h, changed) ELSE ArrRaise(r.h, kl)

\* ArrayProxy.append
AppendNoMaxCheck(h, kl, value) ==
    IF arr.unique /\ Contains(h, kl, value)
    THEN ArrRaise(h, kl)
    ELSE LET key == DummyInstance(h)
             r == PropSet(Alloc(h, key), "e", key, value)
         IN IF r.ok THEN ArrOk(r.h, Append(kl, key)) ELSE ArrRaise(r.h, kl)

append(h, kl, value) ==
    IF Len(kl) = arr.max
    THEN ArrRaise(h, kl)
    ELSE IF arr.unique /\ Contains(h, kl, value)
         THEN ArrRaise(h, kl)
         ELSE KeyList(PropSet(Alloc(h, DummyInstance(h)), "e",
                              DummyInstance(h), value),
                      Append(kl, DummyInstance(h)), kl)

\* ArrayProxy.insert
insert(h, kl, index, value) ==
    IF Len(kl) = arr.max
    THEN ArrRaise(h, kl)
    ELSE IF arr.unique /\ Contains(h, kl, value)
         THEN ArrRaise(h, kl)
         ELSE LET key == DummyInstance(h)
                  at == InsertAt(Len(kl), index)
              IN KeyList(PropSet(Alloc(h, key), "e", key, value),
                         SubSeq(kl, 1, at) \o <<key>>
                             \o SubSeq(kl, at + 1, Len(kl)),
                         kl)

\* ArrayProxy.pop
pop(h, kl, index) ==
    IF Len(kl) = arr.min
    THEN ArrRaise(h, kl)
    ELSE IF ~InRange(Len(kl), index)
         THEN ArrRaise(h, kl)
         ELSE LET at == PopAt(Len(kl), index) + 1
              IN ArrOk(h, SubSeq(kl, 1, at - 1) \o SubSeq(kl, at + 1, Len(kl)))

\* ArrayProxy.clear
clear(h, kl) ==
    IF arr.min > 0 THEN ArrRaise(h, kl) ELSE ArrOk(h, <<>>)

\* ArrayProxy.extend and __iadd__: append each value in turn
RECURSIVE extend(_, _, _, _)
ExtendNext(r, iterable, i) ==
    IF r.ok THEN extend(r.h, r.kl, iterable, i + 1) ELSE r

extend(h, kl, iterable, i) ==
    IF i > Len(iterable)
    THEN ArrOk(h, kl)
    ELSE ExtendNext(append(h, kl, iterable[i]), iterable, i)

\* ArrayProxy.__setitem__
setitem(h, kl, index, value) ==
    IF arr.unique /\ Contains(h, kl, value)
       /\ (~InRange(Len(kl), index)
           \/ PropGet(h, "e", kl[PopAt(Len(kl), index) + 1]) # value)
    THEN ArrRaise(h, kl)
    ELSE IF ~InRange(Len(kl), index)
         THEN ArrRaise(h, kl)
         ELSE KeyList(PropSet(h, "e", kl[PopAt(Len(kl), index) + 1], value),
                      kl, kl)

\* ArrayProxy.__init__(initial_values)
ArrayProxyInit(h, initial_values) == extend(h, <<>>, initial_values, 1)

ArrayWrapsNothing(h, value) == ArrayProxyInit(h, <<>>)

\* ArrayProperty.validate_value for a plain list: the list is wrapped in a
\* new proxy, which ProxyProperty.validate_value returns as it is
ArrayValidateValue(h, value) == ArrayProxyInit(h, value)

NoKeyMap == [k \in Keys |-> NoObj]
NoMapProxy == [declared |-> FALSE, stored |-> FALSE, key_map |-> NoKeyMap]

\* The placeholders a MapProxy holds in its __key_map
MapRoots(km) == {km[k] : k \in {j \in Keys : km[j] # NoObj}}

\* The placeholders alive: those of the stored array and the stored map
ArrHeap ==
    [values |-> values, ikeys |-> instance_keys, kmap |-> key_map,
     used |-> Range(key_list) \cup MapRoots(map_proxy.key_map)]

ArrCommit(r, op, val) ==
    /\ Commit(r.h, Range(r.kl) \cup MapRoots(map_proxy.key_map))
    /\ key_list' = r.kl
    /\ last' = Last(op, "", val, ~r.ok)
    /\ UNCHANGED declVars
    /\ UNCHANGED utilVars
    /\ UNCHANGED <<map_proxy, validator, absent_type>>
    /\ UNCHANGED <<cls, inst_dict, constructed, rt>>

\* ArrayProperty.__init__: the closure proxy class
ArrayDeclare ==
    /\ ~arr.declared
    /\ \E min \in 0..MaxMax, max \in {NoneMax} \cup 0..MaxMax, unique \in BOOLEAN :
        arr' = [declared |-> TRUE, stored |-> FALSE,
                min |-> min, max |-> max, unique |-> unique]
    /\ last' = Last("declare", "", Absent, FALSE)
    /\ UNCHANGED declVars
    /\ UNCHANGED utilVars
    /\ UNCHANGED <<map_proxy, validator, absent_type>>
    /\ UNCHANGED <<cls, values, instance_keys, key_map, inst_dict, constructed,
                   rt, key_list>>

\* Property.__set__ of the ArrayProperty with a plain list
ArrayAssign ==
    /\ arr.declared
    /\ \E value \in Lists :
        \E r \in {ArrayValidateValue(ArrHeap, value)} :
           /\ arr' = [arr EXCEPT !.stored = @ \/ r.ok]
           /\ Commit(r.h, Range(IF r.ok THEN r.kl ELSE key_list)
                            \cup MapRoots(map_proxy.key_map))
           /\ key_list' = IF r.ok THEN r.kl ELSE key_list
           /\ last' = [Last("assign", "", Absent, ~r.ok) EXCEPT !.list = value]
    /\ UNCHANGED declVars
    /\ UNCHANGED utilVars
    /\ UNCHANGED <<map_proxy, validator, absent_type>>
    /\ UNCHANGED <<cls, inst_dict, constructed, rt>>

\* The growth of the list is capped at MaxLen
ArrayAppend ==
    /\ arr.stored
    /\ Len(key_list) < MaxLen
    /\ \E value \in ElemVals :
        ArrCommit(append(ArrHeap, key_list, value), "append", value)
    /\ UNCHANGED arr

ArrayInsert ==
    /\ arr.stored
    /\ Len(key_list) < MaxLen
    /\ \E index \in Indices, value \in ElemVals :
        ArrCommit(insert(ArrHeap, key_list, index, value), "insert", value)
    /\ UNCHANGED arr

ArrayExtend ==
    /\ arr.stored
    /\ \E iterable \in Lists :
        /\ Len(key_list) + Len(iterable) <= MaxLen
        /\ \E r \in {extend(ArrHeap, key_list, iterable, 1)} :
            /\ Commit(r.h, Range(r.kl) \cup MapRoots(map_proxy.key_map))
            /\ key_list' = r.kl
            /\ last' = [Last("extend", "", Absent, ~r.ok) EXCEPT !.list = iterable]
    /\ UNCHANGED declVars
    /\ UNCHANGED utilVars
    /\ UNCHANGED <<map_proxy, validator, absent_type>>
    /\ UNCHANGED <<cls, inst_dict, constructed, rt, arr>>

ArraySetItem ==
    /\ arr.stored
    /\ \E index \in Indices, value \in ElemVals :
        ArrCommit(setitem(ArrHeap, key_list, index, value), "setitem", value)
    /\ UNCHANGED arr

ArrayPop ==
    /\ arr.stored
    /\ \E index \in Indices :
        ArrCommit(pop(ArrHeap, key_list, index), "pop", Absent)
    /\ UNCHANGED arr

ArrayClear ==
    /\ arr.stored
    /\ ArrCommit(clear(ArrHeap, key_list), "clear", Absent)
    /\ UNCHANGED arr

----------------------------------------------------------------------------
(* MapProxy, with value_property a NumberProperty *)

MapKeys == {"a", "b"}

\* The plain dicts handed to the MapProperty
Dicts == {E \in [Keys -> ElemVals \cup {Missing}] :
             \A k \in Keys \ MapKeys : E[k] = Missing}

\* MapProxy.__iter__ and __getitem__: the value under each key
Items(h, km) ==
    [k \in Keys |-> IF km[k] = NoObj THEN Missing ELSE PropGet(h, "e", km[k])]

MapProxySetItemKeyFirst(h, km, key, value) ==
    KeyList(PropSet(Alloc(h, DummyInstance(h)), "e", DummyInstance(h), value),
            [km EXCEPT ![key] = DummyInstance(h)],
            [km EXCEPT ![key] = DummyInstance(h)])

\* MapProxy.__setitem__
MapProxySetItem(h, km, key, value) ==
    KeyList(PropSet(Alloc(h, DummyInstance(h)), "e", DummyInstance(h), value),
            [km EXCEPT ![key] = DummyInstance(h)], km)

\* MapProxy.update(E): self[k] = E[k] for each key of the mapping
RECURSIVE MapProxyUpdate(_, _, _, _)
MapProxyUpdateNext(r, E, i) ==
    IF r.ok THEN MapProxyUpdate(r.h, r.kl, E, i + 1) ELSE r

MapProxyUpdate(h, km, E, i) ==
    IF i > Len(KeyOrder)
    THEN ArrOk(h, km)
    ELSE IF E[KeyOrder[i]] = Missing
         THEN MapProxyUpdate(h, km, E, i + 1)
         ELSE MapProxyUpdateNext(
                  MapProxySetItem(h, km, KeyOrder[i], E[KeyOrder[i]]), E, i)

\* MapProxy.__init__(initial_values)
MapProxyInit(h, initial_values) == MapProxyUpdate(h, NoKeyMap, initial_values, 1)

\* MapProperty.validate_value for a plain dict: the dict is wrapped in a
\* new proxy, which ProxyProperty.validate_value returns as it is
MapValidateValue(h, value) == MapProxyInit(h, value)

\* MapProxy.__delitem__
delitem(h, km, key) ==
    IF km[key] = NoObj THEN ArrRaise(h, km)
    ELSE ArrOk(h, [km EXCEPT ![key] = NoObj])

\* MapProxy.clear
map_clear(h, km) == ArrOk(h, NoKeyMap)

MapCommit(r, op, key, val) ==
    /\ Commit(r.h, MapRoots(r.kl) \cup Range(key_list))
    /\ map_proxy' = [map_proxy EXCEPT !.key_map = r.kl]
    /\ last' = Last(op, key, val, ~r.ok)
    /\ UNCHANGED declVars
    /\ UNCHANGED utilVars
    /\ UNCHANGED <<validator, absent_type>>
    /\ UNCHANGED <<cls, inst_dict, constructed, rt, arr, key_list>>

\* MapProperty.__init__: the closure proxy class
MapDeclare ==
    /\ ~map_proxy.declared
    /\ map_proxy' = [map_proxy EXCEPT !.declared = TRUE]
    /\ last' = Last("declare", "", Absent, FALSE)
    /\ UNCHANGED declVars
    /\ UNCHANGED utilVars
    /\ UNCHANGED <<validator, absent_type>>
    /\ UNCHANGED <<cls, values, instance_keys, key_map, inst_dict, constructed,
                   rt, arr, key_list>>

\* Property.__set__ of the MapProperty with a plain dict
MapAssign ==
    /\ map_proxy.declared
    /\ \E value \in Dicts :
        \E r \in {MapValidateValue(ArrHeap, value)} :
           /\ Commit(r.h, MapRoots(IF r.ok THEN r.kl ELSE map_proxy.key_map)
                            \cup Range(key_list))
           /\ map_proxy' = IF r.ok
                           THEN [map_proxy EXCEPT !.stored = TRUE,
                                                  !.key_map = r.kl]
                           ELSE map_proxy
           /\ last' = [Last("assign_dict", "", Absent, ~r.ok) EXCEPT !.iv = value]
    /\ UNCHANGED declVars
    /\ UNCHANGED utilVars
    /\ UNCHANGED <<validator, absent_type>>
    /\ UNCHANGED <<cls, inst_dict, constructed, rt, arr, key_list>>

MapProxySet ==
    /\ map_proxy.stored
    /\ \E key \in MapKeys, value \in ElemVals :
        MapCommit(MapProxySetItem(ArrHeap, map_proxy.key_map, key, value),
                  "setitem", key, value)

MapProxyDel ==
    /\ map_proxy.stored
    /\ \E key \in MapKeys :
        MapCommit(delitem(ArrHeap, map_proxy.key_map, key), "delitem", key, Absent)

\* MapProxy.setdefault: the returned self[key] is not kept
setdefault(h, km, key, default) ==
    IF km[key] = NoObj
    THEN MapProxySetItem(h, km, key, default)
    ELSE ArrOk(h, km)

MapProxySetDefault ==
    /\ map_proxy.stored
    /\ \E key \in MapKeys, default \in ElemVals :
        MapCommit(setdefault(ArrHeap, map_proxy.key_map, key, default),
                  "setdefault", key, default)

\* MapProxy.update(E) with a plain dict
MapProxyUpdateDict ==
    /\ map_proxy.stored
    /\ \E E \in Dicts :
        \E r \in {MapProxyUpdate(ArrHeap, map_proxy.key_map, E, 1)} :
           /\ Commit(r.h, MapRoots(r.kl) \cup Range(key_list))
           /\ map_proxy' = [map_proxy EXCEPT !.key_map = r.kl]
           /\ last' = [Last("update", "", Absent, ~r.ok) EXCEPT !.iv = E]
    /\ UNCHANGED declVars
    /\ UNCHANGED utilVars
    /\ UNCHANGED <<validator, absent_type>>
    /\ UNCHANGED <<cls, inst_dict, constructed, rt, arr, key_list>>

MapProxyClear ==
    /\ map_proxy.stored
    /\ MapCommit(map_clear(ArrHeap, map_proxy.key_map), "clear", "", Absent)

----------------------------------------------------------------------------
(* AbsentType *)

\* The class as its body leaves it: __instance is None, no object made
NoAbsentType == [instance |-> NoObj, made |-> 0, ret |-> NoObj]

AlwaysNew(t) ==
    [instance |-> t.made, made |-> t.made + 1, ret |-> t.made]

\* AbsentType.__new__: the objects of the class are numbered as they are
\* made, and the first of them is Absent
AbsentTypeNew(t) ==
    IF t.instance = NoObj
    THEN [instance |-> t.made, made |-> t.made + 1, ret |-> t.made]
    ELSE [t EXCEPT !.ret = t.instance]

\* AbsentType(): the first call is Absent = AbsentType() of the module
AbsentTypeCall ==
    /\ absent_type.made < 3
    /\ absent_type' = AbsentTypeNew(absent_type)
    /\ UNCHANGED declVars
    /\ UNCHANGED utilVars
    /\ UNCHANGED <<cls, values, instance_keys, key_map, inst_dict, constructed,
                   last, rt, arr, key_list, map_proxy, validator>>

\* The configuration modules import Absent before they declare anything
Imported == absent_type.instance # NoObj

\* ArrayProxy._serialise_to_raw_json
ArraySerialise(h, kl) == [i \in 1..Len(kl) |-> get_as_raw_json(h, "e", kl[i])]

\* MapProxy._serialise_to_raw_json
MapSerialise(h, km) ==
    [k \in Keys |-> IF km[k] = NoObj THEN Missing
                    ELSE get_as_raw_json(h, "e", km[k])]

----------------------------------------------------------------------------
(* JSONValidatorBase: a validator class with a schema and a special        *)
(* validation hook *)

Schemas == {"Number", "Number0", "String", "Bool", "Raw", "Fail"}

\* What a call leaves behind: the steps that ran, the exception that
\* escaped ("none" when none did) with its __cause__, the value returned
NoCall == [op |-> "none", v |-> Absent, ran |-> <<>>, error |-> "none",
           cause |-> "none", ret |-> FALSE]
NoValidator == [declared |-> FALSE, schema |-> "Raw", rejects |-> {},
                call |-> NoCall]

SpecialFirst(schema, rejects, v) ==
    IF v \in rejects
    THEN [ran |-> <<"special">>, error |-> "SpecialError"]
    ELSE IF v \notin SchemaAccepts(schema)
         THEN [ran |-> <<"special", "schema">>, error |-> "ValidationError"]
         ELSE [ran |-> <<"special", "schema">>, error |-> "none"]

\* The exception raised inside the try block of validate_raw_json:
\* validator.validate first, perform_special_json_validation after it
Validation(schema, rejects, v) ==
    IF v \notin SchemaAccepts(schema)
    THEN [ran |-> <<"schema">>, error |-> "ValidationError"]
    ELSE IF v \in rejects
         THEN [ran |-> <<"schema", "special">>, error |-> "SpecialError"]
         ELSE [ran |-> <<"schema", "special">>, error |-> "none"]

\* except Exception as e: raise JSONError(...) from e
Wrapped(t, op, v) ==
    [op |-> op, v |-> v, ran |-> t.ran,
     error |-> IF t.error = "none" THEN "none" ELSE "JSONError",
     cause |-> t.error, ret |-> FALSE]

\* JSONValidatorBase.validate_raw_json
ValidatorValidateRawJson(schema, rejects, v) ==
    Wrapped(Validation(schema, rejects, v), "validate", v)

\* does_not_raise(func, ...): c is what the call of func left behind
does_not_raise(c) ==
    [c EXCEPT !.error = "none", !.ret = (c.error = "none")]

\* JSONValidatorBase.is_valid_raw_json
is_valid_raw_json(schema, rejects, v) ==
    [does_not_raise(ValidatorValidateRawJson(schema, rejects, v))
        EXCEPT !.op = "is_valid"]

\* A subclass: its get_json_validation_schema and its
\* perform_special_json_validation (the values the hook raises for)
DeclareValidator ==
    /\ ~validator.declared
    /\ \E schema \in Schemas, rejects \in SUBSET Vals :
        validator' = [declared |-> TRUE, schema |-> schema,
                      rejects |-> rejects, call |-> NoCall]
    /\ UNCHANGED declVars
    /\ UNCHANGED utilVars
    /\ UNCHANGED <<cls, values, instance_keys, key_map, inst_dict, constructed,
                   last, rt, arr, key_list, map_proxy, absent_type>>

ValidateRawJson ==
    /\ validator.declared
    /\ \E v \in Vals :
        validator' = [validator EXCEPT !.call =
            ValidatorValidateRawJson(validator.schema, validator.rejects, v)]
    /\ UNCHANGED declVars
    /\ UNCHANGED utilVars
    /\ UNCHANGED <<cls, values, instance_keys, key_map, inst_dict, constructed,
                   last, rt, arr, key_list, map_proxy, absent_type>>

IsValidRawJson ==
    /\ validator.declared
    /\ \E v \in Vals :
        validator' = [validator EXCEPT !.call =
            is_valid_raw_json(validator.schema, validator.rejects, v)]
    /\ UNCHANGED declVars
    /\ UNCHANGED utilVars
    /\ UNCHANGED <<cls, values, instance_keys, key_map, inst_dict, constructed,
                   last, rt, arr, key_list, map_proxy, absent_type>>

----------------------------------------------------------------------------
(* Declarations: property objects, class statements, the schema cache *)

MaxProps == 2       \* property objects a module creates
MaxCands == 2       \* most sub-properties handed to a union property

PropObjs == 1..MaxProps
NoProp == 0
ClassIds == {"Base", "Sub"}       \* class Base(Configuration), class Sub(Base)
AttrNames == {"a", "b", "_p"}
AttrOrder == <<"a", "b", "_p">>   \* the order of the class body
ExplicitNames == {"", "a", "b"}

\* name.startswith("_")
Private(f) == f = "_p"

\* A property object: field is the attribute of its first __set_name__
\* (history kept for the properties, the code does not store it)
NoProperty == [made |-> FALSE, name |-> "", optional |-> FALSE, field |-> "",
               kind |-> "leaf", subs |-> <<>>]
NoNamespace == [f \in AttrNames |-> NoProp]
NoClassObject == [status |-> "none", attrs |-> NoNamespace]
NoSchema == [id |-> 0, required |-> {}, optional |-> {}]
NoEv == [op |-> "none", cls |-> "", raised |-> FALSE, ns |-> NoNamespace,
         kind |-> "", subs |-> <<>>, schema |-> NoSchema]

\* Property.__init__ of a leaf property
PropertyInit(explicit, optional) ==
    [made |-> TRUE, name |-> explicit, optional |-> optional, field |-> "",
     kind |-> "leaf", subs |-> <<>>]

ProxyAcceptsOptional(ps, sub) == FALSE

\* ArrayProxy.__init_subclass__ and MapProxy.__init_subclass__, run by the
\* class statement of the closure proxy in ArrayProperty.__init__ and
\* MapProperty.__init__: TRUE when it raises
ProxyDeclarationRaises(ps, sub) == ps[sub].optional

\* Property.__set_name__(owner, f) on the property object p
set_name(ps, p, f) ==
    IF Private(f)
    THEN [ok |-> FALSE, ps |-> ps]
    ELSE [ok |-> TRUE,
          ps |-> [ps EXCEPT ![p].name = SetName(@, f),
                            ![p].field = IF @ = "" THEN f ELSE @]]

\* type.__new__: __set_name__ of every property of the class body, in
\* order, from attribute i on; the first one that raises ends it
RECURSIVE SetNames(_, _, _)
SetNamesNext(r, ns, i) ==
    IF r.ok THEN SetNames(r.ps, ns, i + 1) ELSE r

SetNames(ps, ns, i) ==
    IF i > Len(AttrOrder)
    THEN [ok |-> TRUE, ps |-> ps]
    ELSE IF ns[AttrOrder[i]] = NoProp
         THEN SetNames(ps, ns, i + 1)
         ELSE SetNamesNext(set_name(ps, ns[AttrOrder[i]], AttrOrder[i]), ns, i)

\* dir(cls): the attributes of the class body over those of its parent
ClassAttrs(cs, c, ns) ==
    [f \in AttrNames |->
        IF ns[f] # NoProp THEN ns[f]
        ELSE IF c = "Sub" THEN cs["Base"].attrs[f] ELSE NoProp]

\* Configuration.get_all_properties: attribute name -> property, without
\* the names that start with an underscore
get_all_properties(attrs) ==
    {f \in AttrNames : ~Private(f) /\ attrs[f] # NoProp}

DuplicatesOfDifferentObjects(ps, attrs) ==
    \E f, g \in get_all_properties(attrs) :
        /\ attrs[f] # attrs[g]
        /\ ps[attrs[f]].name = ps[attrs[g]].name
        /\ ps[attrs[f]].field # ps[attrs[g]].field

\* Configuration.__init_subclass__: TRUE when the list of property names
\* is longer than the set of them
DuplicatePropertyNames(ps, attrs) ==
    Cardinality({ps[attrs[f]].name : f \in get_all_properties(attrs)})
        # Cardinality(get_all_properties(attrs))

\* A module-level statement p = NumberProperty(explicit, optional=...)
DeclareProperty ==
    \E p \in PropObjs, explicit \in ExplicitNames, optional \in BOOLEAN :
        /\ ~props[p].made
        /\ \A q \in PropObjs : q < p => props[q].made
        /\ props' = [props EXCEPT ![p] = PropertyInit(explicit, optional)]
        /\ ev' = [NoEv EXCEPT !.op = "declare", !.kind = "leaf"]
        /\ UNCHANGED <<classes, schema_cache>>
        /\ UNCHANGED instVars
        /\ UNCHANGED utilVars

\* A module-level statement p = ArrayProperty(explicit, sub, optional=...)
\* or p = MapProperty(explicit, sub, optional=...)
DeclareContainer ==
    \E p \in PropObjs, kind \in {"array", "map"}, sub \in PropObjs,
       explicit \in ExplicitNames, optional \in BOOLEAN :
        /\ ~props[p].made
        /\ \A q \in PropObjs : q < p => props[q].made
        /\ props[sub].made
        /\ props' = IF ProxyDeclarationRaises(props, sub)
                    THEN props
                    ELSE [props EXCEPT ![p] =
                             [PropertyInit(explicit, optional)
                                 EXCEPT !.kind = kind, !.subs = <<sub>>]]
        /\ ev' = [NoEv EXCEPT !.op = "declare", !.kind = kind,
                              !.subs = <<sub>>,
                              !.raised = ProxyDeclarationRaises(props, sub)]
        /\ UNCHANGED <<classes, schema_cache>>
        /\ UNCHANGED instVars
        /\ UNCHANGED utilVars

\* A module-level statement p = OneOfProperty(explicit, cands, ...), or
\* AllOfProperty, or AnyOfProperty
DeclareUnion ==
    \E p \in PropObjs, kind \in {"oneof", "allof", "anyof"},
       explicit \in ExplicitNames, optional \in BOOLEAN :
        \E cands \in UNION {[1..n -> {q \in PropObjs : props[q].made}] :
                                n \in 0..MaxCands} :
            /\ ~props[p].made
            /\ \A q \in PropObjs : q < p => props[q].made
            /\ props' = IF OfDeclarationRaises(kind, cands)
                        THEN props
                        ELSE [props EXCEPT ![p] =
                                 [PropertyInit(explicit, optional)
                                     EXCEPT !.kind = kind, !.subs = cands]]
            /\ ev' = [NoEv EXCEPT !.op = "declare", !.kind = kind,
                                  !.subs = cands,
                                  !.raised = OfDeclarationRaises(kind, cands)]
            /\ UNCHANGED <<classes, schema_cache>>
            /\ UNCHANGED instVars
            /\ UNCHANGED utilVars

\* The statement class c(parent) with the class body ns: __set_name__ of
\* the properties, then __init_subclass__; the class exists when neither
\* raised
ClassStatement ==
    \E c \in ClassIds, ns \in [AttrNames -> {NoProp} \cup PropObjs] :
        /\ classes[c].status = "none"
        /\ c = "Sub" => classes["Base"].status = "defined"
        /\ \A f \in AttrNames : ns[f] # NoProp => props[ns[f]].made
        /\ \E r \in {SetNames(props, ns, 1)} :
            \E raised \in {~r.ok \/ DuplicatePropertyNames(r.ps, ClassAttrs(classes, c, ns))} :
               /\ props' = r.ps
               /\ classes' = [classes EXCEPT ![c] =
                                 IF raised
                                 THEN [status |-> "error", attrs |-> NoNamespace]
                                 ELSE [status |-> "defined",
                                       attrs |-> ClassAttrs(classes, c, ns)]]
               /\ ev' = [NoEv EXCEPT !.op = "class", !.cls = c,
                                     !.raised = raised, !.ns = ns]
        /\ UNCHANGED schema_cache
        /\ UNCHANGED instVars
        /\ UNCHANGED utilVars

\* standard_object(required, optional, ...): a new schema object, id
\* its identity, with the keys of the two dicts
standard_object(required, optional, id) ==
    [id |-> id, required |-> required, optional |-> optional]

\* The names of the properties of a class that are (not) optional:
\* get_all_properties(True) filtered on is_optional()
NamesWhere(ps, attrs, optional) ==
    {ps[attrs[f]].name :
        f \in {g \in get_all_properties(attrs) : ps[attrs[g]].optional = optional}}

\* The identity of the next object made: one more than those cached
NewId(cache) ==
    1 + Cardinality({c \in ClassIds : cache[c] # NoSchema})

CachedForAnyClass(cache, c) ==
    IF \E d \in ClassIds : cache[d] # NoSchema
    THEN cache[CHOOSE d \in ClassIds : cache[d] # NoSchema]
    ELSE NoSchema

\* Configuration.__schema_cache[cls], NoSchema when cls is not a key
Cached(cache, c) == cache[c]

\* Configuration.get_json_validation_schema: the schema returned
get_json_validation_schema(cache, ps, cs, c) ==
    IF Cached(cache, c) # NoSchema
    THEN Cached(cache, c)
    ELSE standard_object(NamesWhere(ps, cs[c].attrs, FALSE),
                         NamesWhere(ps, cs[c].attrs, TRUE),
                         NewId(cache))

\* A call c.get_json_validation_schema(): the schema is cached under c
GetSchema ==
    \E c \in ClassIds :
        /\ classes[c].status = "defined"
        /\ \E schema \in {get_json_validation_schema(schema_cache, props,
                                                      classes, c)} :
            /\ schema_cache' = [schema_cache EXCEPT ![c] = schema]
            /\ ev' = [NoEv EXCEPT !.op = "schema", !.cls = c,
                                  !.schema = schema]
        /\ UNCHANGED <<props, classes>>
        /\ UNCHANGED instVars
        /\ UNCHANGED utilVars

----------------------------------------------------------------------------
(* _pool.py: run_on_all on a multiprocessing Pool *)

NumWorkers == 4     \* processes of the pool
MaxEarlier == 2     \* tasks in the queue of the pool before run_on_all

Workers == 1..NumWorkers

\* A pool not yet made.  Of each worker: what it does ("busy" with a task
\* given to the pool earlier, "idle", "waiting" at the barrier, "running"
\* func) and how often it has run func; tasks is the length of the task
\* queue that run_on_all put there, earlier the number of tasks ahead
\* of them, waiting the number of parties at the barrier, results the
\* number of results set
NoPool == [made |-> FALSE, called |-> FALSE, returned |-> FALSE,
           state |-> [w \in Workers |-> "idle"],
           runs |-> [w \in Workers |-> 0],
           tasks |-> 0, earlier |-> 0, waiting |-> 0, results |-> 0]

\* num_processes(pool)
num_processes == NumWorkers

run_without_barrier(p, w) ==
    [p EXCEPT !.state[w] = "running", !.tasks = @ - 1]

\* A worker takes a task of the queue and enters run_with_barrier:
\* barrier.wait()
run_with_barrier(p, w) ==
    [p EXCEPT !.state[w] = "waiting", !.tasks = @ - 1, !.waiting = @ + 1]

\* Pool(NumWorkers), some of its workers busy with earlier tasks
MakePool ==
    /\ ~pool.made
    /\ \E busy \in SUBSET Workers, earlier \in 0..MaxEarlier :
        pool' = [NoPool EXCEPT !.made = TRUE, !.earlier = earlier,
                               !.state = [w \in Workers |->
                                   IF w \in busy THEN "busy" ELSE "idle"]]
    /\ UNCHANGED <<declVars, instVars, memo, interval, switch, twd>>

\* run_on_all up to the list of apply_async calls
RunOnAll ==
    /\ pool.made /\ ~pool.called
    /\ pool' = [pool EXCEPT !.called = TRUE, !.tasks = num_processes]
    /\ UNCHANGED <<declVars, instVars, memo, interval, switch, twd>>

\* A worker ends the earlier task it was busy with
WorkerFree(w) ==
    /\ pool.state[w] = "busy"
    /\ pool' = [pool EXCEPT !.state[w] = "idle"]
    /\ UNCHANGED <<declVars, instVars, memo, interval, switch, twd>>

\* An idle worker takes the task at the head of the queue
WorkerPickUp(w) ==
    /\ pool.state[w] = "idle"
    /\ pool.earlier > 0 \/ pool.tasks > 0
    /\ pool' = IF pool.earlier > 0
               THEN [pool EXCEPT !.state[w] = "busy", !.earlier = @ - 1]
               ELSE run_with_barrier(pool, w)
    /\ UNCHANGED <<declVars, instVars, memo, interval, switch, twd>>

\* barrier.wait() returns once as many parties wait as the barrier has
WorkerPass(w) ==
    /\ pool.state[w] = "waiting" /\ pool.waiting = num_processes
    /\ pool' = [pool EXCEPT !.state[w] = "running"]
    /\ UNCHANGED <<declVars, instVars, memo, interval, switch, twd>>

\* func(*args, **kwargs) returns and the result is set
WorkerRun(w) ==
    /\ pool.state[w] = "running"
    /\ pool' = [pool EXCEPT !.state[w] = "idle", !.runs[w] = @ + 1,
                            !.results = @ + 1]
    /\ UNCHANGED <<declVars, instVars, memo, interval, switch, twd>>

\* run_on_all, last statement: every async_result.get() has returned
RunOnAllReturn ==
    /\ pool.called /\ ~pool.returned
    /\ pool.results = num_processes
    /\ pool' = [pool EXCEPT !.returned = TRUE]
    /\ UNCHANGED <<declVars, instVars, memo, interval, switch, twd>>

----------------------------------------------------------------------------
(* _memoise.py: a Memoiser over a function func *)

MaxArg == 2         \* the arguments of func are 0..MaxArg
MaxCode == 1        \* the versions of the code of func are 0..MaxCode
MaxInvoked == 4     \* calls of func looked at

MemoArgs == 0..MaxArg

\* pickle_function_and_arguments(func, *args)
pickle_function_and_arguments(args) == <<"pickle", "func", args>>

\* hash_function_code(func), code the version of func.__code__.co_code
hash_function_code(code) == <<"sha256", code>>

\* get_memo_filename(data): the hash of data names the file; two
\* different data are taken never to share a name
get_memo_filename(data) == data[3]

\* func(*args): func is pure, its result depends on its code
FuncResult(code, args) == <<"result", code, args>>

NoFile == [exists |-> FALSE, func_and_args |-> <<>>, code_hash |-> <<>>,
           result |-> <<>>]
NoMemoCall == [op |-> "none", args |-> 0, invoked |-> FALSE, ret |-> <<>>]
NoMemo == [files |-> [a \in MemoArgs |-> NoFile], code |-> 0, invoked |-> 0,
           call |-> NoMemoCall]

\* MemoFile._check_stored_func_and_args: TRUE when it raises
\* InvalidMemoFileError
_check_stored_func_and_args(file, pickled_func_and_args) ==
    pickled_func_and_args # file.func_and_args

\* MemoFile._check_stored_code_hash: TRUE when it raises
\* InvalidMemoFileError
_check_stored_code_hash(file, code_hash) ==
    code_hash = file.code_hash

\* MemoFile.load: TRUE when it raises InvalidMemoFileError
LoadRaises(file, pickled_func_and_args, code_hash) ==
    \/ _check_stored_func_and_args(file, pickled_func_and_args)
    \/ _check_stored_code_hash(file, code_hash)

\* MemoFile.save(result)
save(pickled_func_and_args, code_hash, result) ==
    [exists |-> TRUE, func_and_args |-> pickled_func_and_args,
     code_hash |-> code_hash, result |-> result]

\* Memoiser.__call__(*args)
MemoiserCall(m, args) ==
    IF m.files[get_memo_filename(pickle_function_and_arguments(args))].exists
       /\ ~LoadRaises(
              m.files[get_memo_filename(pickle_function_and_arguments(args))],
              pickle_function_and_arguments(args), hash_function_code(m.code))
    THEN [m EXCEPT !.call =
             [op |-> "call", args |-> args, invoked |-> FALSE,
              ret |-> m.files[get_memo_filename(
                                 pickle_function_and_arguments(args))].result]]
    ELSE [m EXCEPT
             !.files[get_memo_filename(pickle_function_and_arguments(args))] =
                 save(pickle_function_and_arguments(args),
                      hash_function_code(m.code), FuncResult(m.code, args)),
             !.invoked = @ + 1,
             !.call = [op |-> "call", args |-> args, invoked |-> TRUE,
                       ret |-> FuncResult(m.code, args)]]

\* memo_func(*args)
MemoCall ==
    /\ memo.invoked < MaxInvoked
    /\ \E args \in MemoArgs : memo' = MemoiserCall(memo, args)
    /\ UNCHANGED <<declVars, instVars, pool, interval, switch, twd>>

\* The source of func is edited between two runs of the program
ChangeCode ==
    /\ memo.code < MaxCode
    /\ memo' = [memo EXCEPT !.code = @ + 1, !.call = NoMemoCall]
    /\ UNCHANGED <<declVars, instVars, pool, interval, switch, twd>>

----------------------------------------------------------------------------
(* _Interval.py *)

MaxBound == 2       \* bounds and tested numbers are 0..MaxBound

Reals == 0..MaxBound
None == 0 - 1

\* Interval.__init__
Interval(lower, upper, lower_inclusive, upper_inclusive) ==
    [_lower |-> lower, _upper |-> upper,
     _lower_inclusive |-> lower_inclusive, _upper_inclusive |-> upper_inclusive]

is_total(i) ==
    i._lower = None /\ i._upper = None /\ i._upper_inclusive /\ i._lower_inclusive

is_empty(i) ==
    i._lower = None /\ i._upper = None /\ ~i._upper_inclusive /\ ~i._lower_inclusive

is_open_lower(i) == i._upper # None /\ i._lower = None /\ i._lower_inclusive

is_open_upper(i) == i._lower # None /\ i._upper = None /\ i._upper_inclusive

is_singular(i) ==
    /\ i._lower # None /\ i._upper # None /\ i._lower = i._upper
    /\ i._upper_inclusive /\ i._lower_inclusive

is_exclude_value(i) ==
    /\ i._lower # None /\ i._upper # None /\ i._lower = i._upper
    /\ ~i._upper_inclusive /\ ~i._lower_inclusive

is_outside(i) == i._lower # None /\ i._upper # None /\ i._lower > i._upper

is_inside(i) == i._lower # None /\ i._upper # None /\ i._upper > i._lower

_above_lower(i, value) ==
    IF i._lower_inclusive THEN value >= i._lower ELSE value > i._lower

_below_upper(i, value) ==
    IF i._upper_inclusive THEN value <= i._upper ELSE value < i._upper

\* Interval.__contains__: "raise" stands for InvalidStateError
__contains__(i, value) ==
    CASE is_total(i) -> "True"
      [] is_empty(i) -> "False"
      [] is_open_upper(i) -> IF _above_lower(i, value) THEN "True" ELSE "False"
      [] is_open_lower(i) -> IF _below_upper(i, value) THEN "True" ELSE "False"
      [] is_singular(i) -> IF value = i._lower THEN "True" ELSE "False"
      [] is_exclude_value(i) -> IF value # i._lower THEN "True" ELSE "False"
      [] is_outside(i) ->
            IF _above_lower(i, value) \/ _below_upper(i, value)
            THEN "True" ELSE "False"
      [] is_inside(i) ->
            IF _above_lower(i, value) /\ _below_upper(i, value)
            THEN "True" ELSE "False"
      [] OTHER -> "raise"

\* Interval.inverse
inverse(i) ==
    Interval(i._upper, i._lower, ~i._upper_inclusive, ~i._lower_inclusive)

Min(a, b) == IF a < b THEN a ELSE b
Max(a, b) == IF a < b THEN b ELSE a

\* The intervals the static constructors return
total == Interval(None, None, TRUE, TRUE)
empty == Interval(None, None, FALSE, FALSE)
open_upper(lower, lower_inclusive) == Interval(lower, None, lower_inclusive, TRUE)
open_lower(upper, upper_inclusive) == Interval(None, upper, TRUE, upper_inclusive)
singular(value) == Interval(value, value, TRUE, TRUE)
exclude_value(value) == Interval(value, value, FALSE, FALSE)
inside(value1, value2, lower_inclusive, upper_inclusive) ==
    Interval(Min(value1, value2), Max(value1, value2),
             lower_inclusive, upper_inclusive)
outside(value1, value2, lower_inclusive, upper_inclusive) ==
    Interval(Max(value1, value2), Min(value1, value2),
             lower_inclusive, upper_inclusive)

\* inside and outside raise ValueError for equal bounds
StaticConstructors ==
    {total, empty}
    \cup {open_upper(l, li) : l \in Reals, li \in BOOLEAN}
    \cup {open_lower(u, ui) : u \in Reals, ui \in BOOLEAN}
    \cup {singular(v) : v \in Reals}
    \cup {exclude_value(v) : v \in Reals}
    \cup UNION {{inside(ab[1], ab[2], li, ui), outside(ab[1], ab[2], li, ui)} :
                   ab \in {p \in Reals \X Reals : p[1] # p[2]},
                   li \in BOOLEAN, ui \in BOOLEAN}

NoInterval == [made |-> FALSE, i |-> empty, value |-> 0,
               in_it |-> "none", in_inverse |-> "none"]

\* i = Interval.<constructor>(...)
MakeInterval ==
    /\ ~interval.made
    /\ \E i \in StaticConstructors :
        interval' = [NoInterval EXCEPT !.made = TRUE, !.i = i]
    /\ UNCHANGED <<declVars, instVars, pool, memo, switch, twd>>

\* value in i, and value in i.inverse()
TestInterval ==
    /\ interval.made
    /\ \E value \in Reals :
        interval' = [interval EXCEPT
                        !.value = value,
                        !.in_it = __contains__(interval.i, value),
                        !.in_inverse = __contains__(inverse(interval.i), value)]
    /\ UNCHANGED <<declVars, instVars, pool, memo, switch, twd>>

----------------------------------------------------------------------------
(* _switch.py *)

MaxDepth == 2       \* deepest nesting of switch blocks in one thread

Threads == {"t1", "t2"}         \* threading.get_ident() of the threads
Ons == {0}                      \* values switched on
Cases == {0, 1}                 \* values a case is tested with
Depths == 1..MaxDepth
Managers == Threads \X Depths   \* a SwitchContextManager: who made it, where

\* SwitchContextManager.__init__
SwitchContextManager(on) ==
    [on |-> on, matched |-> FALSE, executed_default |-> FALSE]

\* context_stacks: no key for any thread.  blocks is the with statements
\* each thread is inside, innermost last; pc is where each thread is in a
\* call, stack the list get_context_stack returned to it (the key of the
\* list), entering the manager whose __enter__ is running
NoSwitch ==
    [context_stacks |-> [t \in Threads |-> [present |-> FALSE, list |-> <<>>]],
     managers |-> [m \in Managers |-> SwitchContextManager(0)],
     blocks |-> [t \in Threads |-> <<>>],
     pc |-> [t \in Threads |-> "idle"],
     stack |-> [t \in Threads |-> t]]

get_shared_stack(s, current_thread) ==
    [s EXCEPT !.context_stacks["t1"].present = TRUE,
              !.stack[current_thread] = "t1"]

\* get_context_stack, run as a whole under thread_lock
get_context_stack(s, current_thread) ==
    [s EXCEPT !.context_stacks[current_thread].present = TRUE,
              !.stack[current_thread] = current_thread]

\* The list a thread got from get_context_stack
StackOf(s, t) == s.context_stacks[s.stack[t]].list

Top(list) == list[Len(list)]
Front(list) == SubSeq(list, 1, Len(list) - 1)

SwitchStep(s) ==
    /\ switch' = s
    /\ UNCHANGED <<declVars, instVars, pool, memo, interval, twd>>

\* with switch(on): the manager is made and __enter__ calls add_to_stack,
\* which gets the stack of the thread
SwitchEnter(t) ==
    /\ switch.pc[t] = "idle"
    /\ Len(switch.blocks[t]) < MaxDepth
    /\ \E on \in Ons :
        SwitchStep(get_context_stack(
            [switch EXCEPT
                !.managers[<<t, Len(switch.blocks[t]) + 1>>] =
                    SwitchContextManager(on),
                !.blocks[t] = Append(@, <<t, Len(switch.blocks[t]) + 1>>),
                !.pc[t] = "append"], t))

\* add_to_stack: the append
SwitchAppend(t) ==
    /\ switch.pc[t] = "append"
    /\ SwitchStep([switch EXCEPT
            !.context_stacks[switch.stack[t]].list =
                Append(@, Top(switch.blocks[t])),
            !.pc[t] = "idle"])

\* case(...) and default(): get_current_context_manager gets the stack
SwitchCall(t) ==
    /\ switch.pc[t] = "idle"
    /\ \E op \in {"case", "default"} :
        SwitchStep(get_context_stack([switch EXCEPT !.pc[t] = op], t))

\* The end of the with statement, normally or by an exception (break_()
\* included): __exit__ calls pop_from_stack, which gets the stack
SwitchExit(t) ==
    /\ switch.pc[t] = "idle"
    /\ switch.blocks[t] # <<>>
    /\ SwitchStep(get_context_stack([switch EXCEPT !.pc[t] = "pop"], t))

\* check_default_executed raised BreakSwitchException in manager m: the
\* exception leaves the with statement, whose __exit__ gets the stack
BreakSwitch(s, t) == get_context_stack([s EXCEPT !.pc[t] = "pop"], t)

\* get_current_context_manager peeks the top of the stack (SwitchError on
\* an empty stack), then SwitchContextManager.case
SwitchCase(t) ==
    /\ switch.pc[t] = "case"
    /\ \E first_case \in Cases :
        IF StackOf(switch, t) = <<>>
        THEN SwitchStep([switch EXCEPT !.pc[t] = "idle"])
        ELSE IF switch.managers[Top(StackOf(switch, t))].executed_default
             THEN SwitchStep(BreakSwitch(switch, t))
             ELSE SwitchStep([switch EXCEPT
                     !.managers[Top(StackOf(switch, t))].matched =
                         @ \/ switch.managers[Top(StackOf(switch, t))].on
                                 = first_case,
                     !.pc[t] = "idle"])

\* ... then SwitchContextManager.default
SwitchDefault(t) ==
    /\ switch.pc[t] = "default"
    /\ IF StackOf(switch, t) = <<>>
       THEN SwitchStep([switch EXCEPT !.pc[t] = "idle"])
       ELSE IF switch.managers[Top(StackOf(switch, t))].executed_default
            THEN SwitchStep(BreakSwitch(switch, t))
            ELSE SwitchStep([switch EXCEPT
                    !.managers[Top(StackOf(switch, t))].executed_default = TRUE,
                    !.pc[t] = "idle"])

\* pop_from_stack: SwitchError on an empty stack, else the pop; either way
\* the thread has left the with statement and its manager is dropped
SwitchPop(t) ==
    /\ switch.pc[t] = "pop"
    /\ IF StackOf(switch, t) = <<>>
       THEN SwitchStep([switch EXCEPT
               !.managers[Top(switch.blocks[t])] = SwitchContextManager(0),
               !.blocks[t] = Front(@),
               !.pc[t] = "idle"])
       ELSE SwitchStep([switch EXCEPT
               !.context_stacks[switch.stack[t]].list = Front(@),
               !.managers[Top(switch.blocks[t])] = SwitchContextManager(0),
               !.blocks[t] = Front(@),
               !.pc[t] = "idle"])

----------------------------------------------------------------------------
(* _TwoWayDict.py *)

MaxKey == 3         \* forward keys and reverse keys are 0..MaxKey

TwdKeys == 0..MaxKey

\* TwoWayDict.__init__: two empty dicts (None: the key is not in the dict);
\* call is the last method called and raised records its KeyError
NoTwoWayDict ==
    [_forward_map |-> [k \in TwdKeys |-> None],
     _reverse_map |-> [k \in TwdKeys |-> None],
     call |-> "none",
     raised |-> FALSE]

\* dict.pop(key): KeyError when the key is not in the dict
DictPop(d, key) == [d EXCEPT ![key] = None]

\* set_forward, first statement
PopOldValue(d, key) ==
    IF d._forward_map[key] # None
    THEN [d EXCEPT !._reverse_map = DictPop(@, d._forward_map[key]),
                   !.raised = d._reverse_map[d._forward_map[key]] = None]
    ELSE [d EXCEPT !.raised = FALSE]

\* set_forward, second statement
PopOldKey(d, value) ==
    IF d.raised THEN d
    ELSE IF d._reverse_map[value] # None
         THEN [d EXCEPT !._forward_map = DictPop(@, d._reverse_map[value]),
                        !.raised = d._forward_map[d._reverse_map[value]] = None]
         ELSE d

\* set_forward, the two assignments
SetBoth(d, key, value) ==
    IF d.raised THEN d
    ELSE [d EXCEPT !._forward_map[key] = value, !._reverse_map[value] = key]

set_forward_keep_old(d, key, value) ==
    SetBoth(PopOldValue(d, key), key, value)

\* TwoWayDict.set_forward
set_forward(d, key, value) ==
    SetBoth(PopOldKey(PopOldValue(d, key), value), key, value)

\* TwoWayDict.set_reverse
set_reverse(d, key, value) == set_forward(d, value, key)

SetForward ==
    /\ \E key \in TwdKeys, value \in TwdKeys :
        twd' = [set_forward(twd, key, value) EXCEPT !.call = "set_forward"]
    /\ UNCHANGED <<declVars, instVars, pool, memo, interval, switch>>

SetReverse ==
    /\ \E key \in TwdKeys, value \in TwdKeys :
        twd' = [set_reverse(twd, key, value) EXCEPT !.call = "set_reverse"]
    /\ UNCHANGED <<declVars, instVars, pool, memo, interval, switch>>


----------------------------------------------------------------------------
(* Specifications *)

NoArray == [declared |-> FALSE, stored |-> FALSE,
            min |-> 0, max |-> NoneMax, unique |-> FALSE]

Init ==
    /\ cls = NoClass
    /\ values = [p \in PropIds |-> [o \in Objs |-> Unset]]
    /\ instance_keys = [p \in UnionIds |-> [o \in Objs |-> NoObj]]
    /\ key_map = [i \in Insts |-> [k \in Keys |-> NoObj]]
    /\ inst_dict = [k \in Keys |-> Unset]
    /\ constructed = FALSE
    /\ last = NoLast
    /\ rt = NoRt
    /\ arr = NoArray
    /\ key_list = <<>>
    /\ map_proxy = NoMapProxy
    /\ validator = NoValidator
    /\ absent_type = NoAbsentType
    /\ pool = NoPool
    /\ memo = NoMemo
    /\ interval = NoInterval
    /\ switch = NoSwitch
    /\ twd = NoTwoWayDict
    /\ props = [p \in PropObjs |-> NoProperty]
    /\ classes = [c \in ClassIds |-> NoClassObject]
    /\ schema_cache = [c \in ClassIds |-> NoSchema]
    /\ ev = NoEv

Next ==
    \/ DefineClass(ConfigShapes)
    \/ Construct(ConfigInitialValues)
    \/ SetAttr({"a", "b", "x"}, Numbers \cup {JStr, Absent})
    \/ DelAttr({"a", "b"})
    \/ RoundTrip

Spec == Init /\ [][Next]_vars

NextUnion ==
    \/ DefineClass(UnionShapes)
    \/ Construct(UnionInitialValues)
    \/ SetAttr({"a", "u"}, Vals \cup {Absent})
    \/ DelAttr(Fields)

SpecUnion == Init /\ [][NextUnion]_vars

NextStrict ==
    \/ DefineClass(StrictShapes)
    \/ Construct(ConfigInitialValues)
    \/ SetAttr({"a", "b", "x"}, Numbers \cup {JStr, Absent})
    \/ DelAttr({"a", "b"})
    \/ RoundTrip

SpecStrict == Init /\ [][NextStrict]_vars

NextArray ==
    \/ ArrayDeclare
    \/ ArrayAssign
    \/ ArrayAppend
    \/ ArrayInsert
    \/ ArrayExtend
    \/ ArraySetItem
    \/ ArrayPop
    \/ ArrayClear

SpecArray == Init /\ [][NextArray]_vars

NextMap ==
    \/ MapDeclare
    \/ MapAssign
    \/ MapProxySet
    \/ MapProxyDel
    \/ MapProxyClear

SpecMap == Init /\ [][NextMap]_vars

\* A program that imports the module and then works on a Configuration,
\* on an ArrayProperty or on a MapProperty
NextAbsent ==
    \/ AbsentTypeCall
    \/ /\ Imported /\ ~arr.declared /\ ~map_proxy.declared
       /\ DefineClass(ConfigShapes)
    \/ Construct(ConfigInitialValues)
    \/ SetAttr({"a", "b", "x"}, Numbers \cup {JStr, Absent})
    \/ DelAttr({"a", "b"})
    \/ /\ Imported /\ cls.status = "none" /\ ~map_proxy.declared
       /\ ArrayDeclare
    \/ ArrayAssign
    \/ ArrayAppend
    \/ ArrayInsert
    \/ ArrayExtend
    \/ ArraySetItem
    \/ ArrayPop
    \/ ArrayClear
    \/ /\ Imported /\ cls.status = "none" /\ ~arr.declared
       /\ MapDeclare
    \/ MapAssign
    \/ MapProxySet
    \/ MapProxyDel
    \/ MapProxyClear

SpecAbsent == Init /\ [][NextAbsent]_vars

NextPool ==
    \/ MakePool
    \/ RunOnAll
    \/ \E w \in Workers : WorkerFree(w)
    \/ \E w \in Workers : WorkerPickUp(w)
    \/ \E w \in Workers : WorkerPass(w)
    \/ \E w \in Workers : WorkerRun(w)
    \/ RunOnAllReturn

\* The workers of a pool are processes of their own: each goes on
\* whenever it can, and so does the caller waiting on the results
SpecPool ==
    /\ Init /\ [][NextPool]_vars
    /\ \A w \in Workers :
          WF_vars(WorkerPickUp(w)) /\ WF_vars(WorkerPass(w)) /\ WF_vars(WorkerRun(w))
    /\ WF_vars(RunOnAllReturn)

NextMemo ==
    \/ MemoCall
    \/ ChangeCode

SpecMemo == Init /\ [][NextMemo]_vars

NextInterval ==
    \/ MakeInterval
    \/ TestInterval

SpecInterval == Init /\ [][NextInterval]_vars

NextValidator ==
    \/ DeclareValidator
    \/ ValidateRawJson
    \/ IsValidRawJson

SpecValidator == Init /\ [][NextValidator]_vars

\* Assignments of plain lists and plain dicts to a class that declares
\* one container property, an ArrayProperty or a MapProperty
NextAssign ==
    \/ ~map_proxy.declared /\ ArrayDeclare
    \/ ArrayAssign
    \/ ~arr.declared /\ MapDeclare
    \/ MapAssign

SpecAssign == Init /\ [][NextAssign]_vars

\* A program that works on the proxy of an ArrayProperty or on the proxy
\* of a MapProperty
NextProxy ==
    \/ ~map_proxy.declared /\ ArrayDeclare
    \/ ArrayAssign
    \/ ArrayAppend
    \/ ArrayInsert
    \/ ArrayExtend
    \/ ArraySetItem
    \/ ArrayPop
    \/ ArrayClear
    \/ ~arr.declared /\ MapDeclare
    \/ MapAssign
    \/ MapProxySet
    \/ MapProxySetDefault
    \/ MapProxyUpdateDict
    \/ MapProxyDel
    \/ MapProxyClear

SpecProxy == Init /\ [][NextProxy]_vars

\* A program with two instances of one Configuration class, or with an
\* ArrayProperty without constraints and a MapProperty over the same
\* sub-property, each assigned once and then written element by element
NextIsolation ==
    \/ ~arr.declared /\ ~map_proxy.declared /\ DefineClass(IsolationShapes)
    \/ Construct(IsolationInitialValues)
    \/ ConstructOther(IsolationInitialValues)
    \/ SetAttrOn({"a", "u"}, {JNum(0), JStr})
    \/ /\ cls.status = "none"
       /\ ArrayDeclare
       /\ arr'.min = 0 /\ arr'.max = NoneMax /\ ~arr'.unique
    \/ ~arr.stored /\ ArrayAssign
    \/ ArraySetItem
    \/ arr.stored /\ MapDeclare
    \/ ~map_proxy.stored /\ MapAssign
    \/ MapProxySet

SpecIsolation == Init /\ [][NextIsolation]_vars

NextSwitch ==
    \E t \in Threads :
        \/ SwitchEnter(t)
        \/ SwitchAppend(t)
        \/ SwitchCall(t)
        \/ SwitchCase(t)
        \/ SwitchDefault(t)
        \/ SwitchExit(t)
        \/ SwitchPop(t)

SpecSwitch == Init /\ [][NextSwitch]_vars

NextTwoWayDict ==
    \/ SetForward
    \/ SetReverse

SpecTwoWayDict == Init /\ [][NextTwoWayDict]_vars

NextClass ==
    \/ DeclareProperty
    \/ ClassStatement
    \/ GetSchema

SpecClass == Init /\ [][NextClass]_vars

NextDeclare ==
    \/ DeclareProperty
    \/ DeclareContainer
    \/ DeclareUnion

SpecDeclare == Init /\ [][NextDeclare]_vars

----------------------------------------------------------------------------
(* Properties *)

Now == Heap({Inst0})
After == [values |-> values', ikeys |-> instance_keys', kmap |-> key_map',
          used |-> {}]

\* The candidates of the union property u that accept a value
Accepting(v) ==
    {i \in 1..Len(sub_properties("u")) :
        validate_value(Now, sub_properties("u")[i], Inst0, v).ok}

SetOnUnion(kind) ==
    /\ last.op = "set"
    /\ last.key = "u"
    /\ last.val # Absent
    /\ cls.ukind = kind

\* C1: serialising a valid instance and deserialising the result gives an
\* instance with the same declared property values and the same additional
\* properties
C1_RoundTrip ==
    rt.status \in {"raised", "ok"} => rt.status = "ok" /\ rt.same

\* C2: after successful construction no non-optional property is Absent;
\* construction without an initial value for a non-optional property
\* raises, and so does deleting a non-optional property
C2_NonOptionalPresent ==
    /\ constructed =>
        \A f \in Fields : ~is_optional(f) => PropGet(Now, f, Inst0) \in Vals
    /\ last.op = "construct"
       /\ (\E f \in Fields : /\ ~is_optional(f)
                             /\ last.iv[f] = Missing
                             /\ last.iv[name(f)] = Missing)
       => last.raised
    /\ last.op = "del" /\ ~is_optional(last.key) => last.raised

C2_Witness ==
    /\ last.op = "del"
    /\ last.raised
    /\ ~is_optional(last.key)
    /\ PropGet(Now, last.key, Inst0) \in Vals

\* C5: a set on a OneOfProperty succeeds exactly when exactly one candidate
\* accepts the value, and the recorded index is then that candidate's
C5_OneOfExactlyOne ==
    SetOnUnion("oneof") =>
        /\ ~last.raised <=> Cardinality(Accepting(last.val)) = 1
        /\ ~last.raised =>
            \E i \in Accepting(last.val) : values["u"][Inst0] = JNum(i - 1)

\* C6: an AnyOfProperty can be declared with two or more candidates; a set
\* on it succeeds exactly when some candidate accepts the value, and the
\* recorded index is then the lowest accepting one
C6_AnyOfFirstAccepting ==
    /\ last.op = "define" /\ cls.ukind = "anyof" /\ Len(cls.ucands) >= 2
       => cls.status = "defined"
    /\ SetOnUnion("anyof") =>
        /\ ~last.raised <=> Accepting(last.val) # {}
        /\ ~last.raised =>
            \E i \in Accepting(last.val) :
                /\ values["u"][Inst0] = JNum(i - 1)
                /\ \A j \in Accepting(last.val) : i <= j

\* C7: a set on an AllOfProperty succeeds exactly when every candidate
\* accepts the value; the recorded index is then 0 and the stored value is
\* the validated value of candidate 0
C7_AllOfEvery ==
    SetOnUnion("allof") =>
        /\ ~last.raised <=>
            Accepting(last.val) = 1..Len(sub_properties("u"))
        /\ ~last.raised =>
            /\ values["u"][Inst0] = JNum(0)
            /\ values["u0"][instance_keys["u"][Inst0]] =
                   validate_value(Now, "u0", Inst0, last.val).ret

\* C8: a set on a union property that fails leaves the recorded index, the
\* placeholder and the value returned by get as they were
C8_FailedUnionSetNoCommit ==
    [][(last'.op = "set" /\ last'.key = "u" /\ last'.raised) =>
        /\ values'["u"][Inst0] = values["u"][Inst0]
        /\ instance_keys'["u"][Inst0] = instance_keys["u"][Inst0]
        /\ PropGet(After, "u", Inst0) = PropGet(Now, "u", Inst0)]_vars

C8_Witness ==
    /\ last.op = "set"
    /\ last.key = "u"
    /\ last.raised
    /\ last.val # Absent
    /\ PropGet(Now, "u", Inst0) \in Vals

\* C9: a failed set (Absent on a non-optional property, or a value that
\* validate_value rejects) raises and leaves every property value of the
\* instance unchanged; Absent on an optional property succeeds and get then
\* returns Absent
C9_FailedSetNoChange ==
    [][/\ (last'.op \in {"set", "del"} /\ last'.raised) =>
             Observable(After, Inst0) = Observable(Now, Inst0)
       /\ (last'.op = "set" /\ last'.key \in Fields /\ last'.val = Absent) =>
             /\ last'.raised <=> ~is_optional(last'.key)
             /\ ~last'.raised => PropGet(After, last'.key, Inst0) = Absent
       /\ (last'.op = "set" /\ last'.key \in Fields /\ last'.val # Absent
           /\ ~validate_value(Now, last'.key, Inst0, last'.val).ok) =>
             last'.raised]_vars

C9_Witness ==
    /\ last.op = "set"
    /\ last.raised
    /\ last.val # Absent
    /\ \A f \in Fields : PropGet(Now, f, Inst0) \in Vals

\* C10: an initial value under key k goes to the property whose attribute
\* name is k, else to the property whose name() is k, else to the
\* additional properties, and nowhere else
C10_InitialValueRouting ==
    (last.op = "construct" /\ ~last.raised) =>
        \A k \in Keys :
            last.iv[k] # Missing =>
                IF k \in Fields
                THEN PropGet(Now, k, Inst0) = last.iv[k]
                     /\ Additional(Now, Inst0, k) = Missing
                ELSE IF IsPropertyName(k)
                     THEN PropGet(Now, PropertyNamed(k), Inst0) = last.iv[k]
                          /\ Additional(Now, Inst0, k) = Missing
                     ELSE Additional(Now, Inst0, k) = last.iv[k]

ArrNow == Elements(ArrHeap, key_list)
ArrAfter == Elements(After, key_list')

\* C3: in every state of an ArrayProxy the length is at least min_elements,
\* at most max_elements when a maximum is set, and the elements are
\* pairwise different when unique_elements is set
C3_ArrayConstraints ==
    arr.stored =>
        /\ arr.min <= Len(key_list)
        /\ arr.max # NoneMax => Len(key_list) <= arr.max
        /\ arr.unique =>
            \A i, j \in 1..Len(key_list) : i # j => ArrNow[i] # ArrNow[j]

\* C4: append or insert at max_elements, pop at min_elements, append or
\* insert of a value already present under unique_elements, and clear with
\* min_elements above zero all raise and leave the elements and their order
\* unchanged
C4_RejectedMutationNoChange ==
    [][(\/ last'.op \in {"append", "insert"} /\ Len(key_list) = arr.max
        \/ last'.op \in {"append", "insert"} /\ arr.unique
           /\ last'.val \in Range(ArrNow)
        \/ last'.op = "pop" /\ Len(key_list) = arr.min
        \/ last'.op = "clear" /\ arr.min > 0)
       => /\ last'.raised
          /\ key_list' = key_list
          /\ ArrAfter = ArrNow]_vars

C4_Witness ==
    /\ last.op = "append"
    /\ last.raised
    /\ last.val \in Numbers
    /\ Len(key_list) = arr.max
    /\ Len(key_list) > 0
    /\ ~arr.unique

\* A key that is neither an attribute name nor the name() of a property
Undeclared(k) == k \notin Fields /\ ~IsPropertyName(k)

\* The additional properties hold v under k: the attribute read and the
\* serialised JSON both give v
HeldAfter(k, v) ==
    /\ Additional(After, Inst0, k) = v
    /\ getattr(After, inst_dict', Inst0, k) = v
    /\ _serialise_to_raw_json(After, Inst0)[k] = v

PropertyNames(c) ==
    [f \in get_all_properties(classes[c].attrs) |->
        props[classes[c].attrs[f]].name]

\* C12: a class statement in which two properties, of the class body or
\* inherited, have the same name() raises; the property names of every
\* class that exists are pairwise different
C12_UniqueNames ==
    /\ \A c \in ClassIds :
          classes[c].status = "defined" =>
              \A f, g \in DOMAIN PropertyNames(c) :
                  f # g => PropertyNames(c)[f] # PropertyNames(c)[g]
    /\ (ev.op = "class" /\ ~ev.raised) =>
          \A f, g \in AttrNames :
              LET all == ClassAttrs(classes, ev.cls, ev.ns)
              IN (f # g /\ all[f] # NoProp /\ all[g] # NoProp)
                 => props[all[f]].name # props[all[g]].name

C12_Witness ==
    /\ ev.op = "class"
    /\ ev.cls = "Sub"
    /\ ev.raised
    /\ ev.ns["_p"] = NoProp
    /\ ev.ns["a"] = NoProp
    /\ ev.ns["b"] # NoProp
    /\ classes["Base"].attrs["a"] # NoProp
    /\ classes["Base"].attrs["a"] # ev.ns["b"]
    /\ props[ev.ns["b"]].name = props[classes["Base"].attrs["a"]].name

\* C13: while an optional property is Absent the serialised JSON has no
\* key of its name(); an instance built from input without a key for an
\* optional property reads Absent for it
C13_OptionalOmitted ==
    /\ constructed =>
          \A f \in Fields :
              (is_optional(f) /\ PropGet(Now, f, Inst0) = Absent)
              => _serialise_to_raw_json(Now, Inst0)[name(f)] = Missing
    /\ (last.op = "construct" /\ ~last.raised) =>
          \A f \in Fields :
              (is_optional(f) /\ last.iv[f] = Missing
               /\ last.iv[name(f)] = Missing)
              => getattr(Now, inst_dict, Inst0, f) = Absent

\* C14: the name of a property is bound once: a class statement that binds
\* a named property to a field of that name leaves name() as it was, and
\* one that binds a property, bound to a field before, under another name
\* raises
C14_BoundOnce ==
    [][ev'.op = "class" =>
        \A f \in AttrNames :
            (ev'.ns[f] # NoProp /\ props[ev'.ns[f]].name # "") =>
                /\ props[ev'.ns[f]].name = f
                       => props'[ev'.ns[f]].name = props[ev'.ns[f]].name
                /\ (props[ev'.ns[f]].field # "" /\ props[ev'.ns[f]].field # f
                    /\ props[ev'.ns[f]].name # f)
                       => ev'.raised]_vars

\* C15: in a subtype of StrictConfiguration, construction with a key that
\* is neither an attribute nor a property name raises, assignment to an
\* attribute that is not declared raises, the additional properties of a
\* constructed instance are empty and to_raw_json has declared property
\* names only.
ExtraKey(iv, k) ==
    iv[k] # Missing /\ k \notin Fields /\ ~IsPropertyName(k)

C15_StrictRejectsExtras ==
    cls.strict =>
        /\ (last.op = "construct" /\ \E k \in Keys : ExtraKey(last.iv, k))
               => last.raised
        /\ (last.op = "set" /\ last.key \notin Fields) => last.raised
        /\ constructed =>
               \A k \in Keys :
                   /\ key_map[Inst0][k] = NoObj
                   /\ _serialise_to_raw_json(Heap({Inst0}), Inst0)[k] # Missing
                          => IsPropertyName(k)

C15_Witness ==
    /\ cls.strict /\ constructed
    /\ last.op = "set" /\ last.key = "x" /\ last.raised
    /\ \E k \in Keys : _serialise_to_raw_json(Heap({Inst0}), Inst0)[k] # Missing

\* C16: after a plain list is assigned to the Array property, or a plain
\* dict to the Map property, the value stored is a proxy of the property
\* (placeholders of its own, one for each element) that holds the
\* assigned elements in the same order, or the same key-to-value pairs,
\* each of them accepted by the sub-property.
OwnPlaceholders(kl) ==
    /\ Range(kl) \subseteq Placeholders
    /\ Cardinality(Range(kl)) = Len(kl)

C16_PlainWrapped ==
    /\ (last.op = "assign" /\ ~last.raised) =>
          /\ arr.stored
          /\ OwnPlaceholders(key_list)
          /\ Elements(ArrHeap, key_list) = last.list
          /\ Range(last.list) \subseteq SchemaAccepts(DefOf("e"))
    /\ (last.op = "assign_dict" /\ ~last.raised) =>
          /\ map_proxy.stored
          /\ MapRoots(map_proxy.key_map) \subseteq Placeholders
          /\ \A j, k \in Keys :
                 (j # k /\ map_proxy.key_map[j] # NoObj)
                     => map_proxy.key_map[j] # map_proxy.key_map[k]
          /\ Items(ArrHeap, map_proxy.key_map) = last.iv
          /\ \A k \in Keys :
                 last.iv[k] = Missing \/ last.iv[k] \in SchemaAccepts(DefOf("e"))

C16_Witness ==
    /\ last.op = "assign" /\ ~last.raised
    /\ Len(last.list) = MaxLen
    /\ Len(key_list) = MaxLen

C16_WitnessDict ==
    /\ last.op = "assign_dict" /\ ~last.raised
    /\ last.iv["a"] # Missing /\ last.iv["b"] # Missing
    /\ map_proxy.key_map["a"] # NoObj

\* C17: validate_raw_json(v) succeeds exactly when v passes the schema and
\* then the special validation, the special validation runs only after
\* the schema has passed, every failure escapes as one JSONError wrapping
\* the failure, and is_valid_raw_json(v) never raises and returns whether
\* validate_raw_json(v) succeeds.
Passes(v) ==
    v \in SchemaAccepts(validator.schema) /\ v \notin validator.rejects

C17_ValidateThenSpecial ==
    /\ validator.call.op = "validate" =>
          /\ (validator.call.error = "none") = Passes(validator.call.v)
          /\ validator.call.error \in {"none", "JSONError"}
          /\ validator.call.error = "JSONError" =>
                 validator.call.cause \in {"ValidationError", "SpecialError"}
    /\ validator.call.op # "none" =>
          /\ validator.call.ran[1] = "schema"
          /\ Len(validator.call.ran) = 2 =>
                 /\ validator.call.ran[2] = "special"
                 /\ validator.call.v \in SchemaAccepts(validator.schema)
          /\ Len(validator.call.ran) = 1 =>
                 validator.call.v \notin SchemaAccepts(validator.schema)
    /\ validator.call.op = "is_valid" =>
          /\ validator.call.error = "none"
          /\ validator.call.ret = Passes(validator.call.v)

C17_Witness ==
    /\ validator.call.op = "is_valid"
    /\ validator.call.v \in SchemaAccepts(validator.schema)
    /\ validator.call.v \in validator.rejects
    /\ ~validator.call.ret

\* C18: AbsentType() returns the one object Absent however often it is
\* called, and no entry of the JSON that a Configuration, an ArrayProxy or
\* a MapProxy serialises to is Absent, whatever sets, deletes and
\* mutations came before.
C18_AbsentNeverEmitted ==
    /\ absent_type.made <= 1
    /\ absent_type.ret # NoObj => absent_type.ret = Absent[2]
    /\ constructed =>
          \A k \in Keys :
              _serialise_to_raw_json(Heap({Inst0}), Inst0)[k] \notin {Absent, Unset}
    /\ \A i \in 1..Len(key_list) :
          ArraySerialise(ArrHeap, key_list)[i] \notin {Absent, Unset}
    /\ \A k \in Keys :
          MapSerialise(ArrHeap, map_proxy.key_map)[k] \notin {Absent, Unset}

C18_Witness ==
    /\ constructed
    /\ last.op = "del" /\ ~last.raised
    /\ PropGet(Heap({Inst0}), last.key, Inst0) = Absent
    /\ absent_type.ret = Absent[2]

C18_WitnessArray ==
    /\ last.op = "setitem" /\ last.val = Absent /\ last.raised
    /\ Len(key_list) = MaxLen

C18_WitnessMap ==
    /\ last.op = "setitem" /\ last.val = Absent /\ last.raised
    /\ map_proxy.key_map["a"] # NoObj

\* C19: the declaration of a union property with fewer than two
\* sub-properties, and of an Array or Map property whose sub-property is
\* optional, raises in the declaration itself: no property object comes
\* of it, and no instance and no value exists yet.
Malformed(kind, subs, ps) ==
    \/ kind \in {"oneof", "allof", "anyof"} /\ Len(subs) < 2
    \/ kind \in {"array", "map"} /\ ps[subs[1]].optional

NothingSet ==
    /\ ~constructed
    /\ \A q \in PropIds, o \in Objs : values[q][o] = Unset

C19_MalformedRaises ==
    [][(ev'.op = "declare" /\ Malformed(ev'.kind, ev'.subs, props))
          => /\ ev'.raised
             /\ props' = props
             /\ NothingSet]_vars

C19_Raised ==
    ev.op = "declare" /\ ev.raised /\ ev.kind \in {"array", "map"}

C19_Witness ==
    /\ C19_Raised
    /\ props[ev.subs[1]].optional
    /\ \E q \in PropObjs : ~props[q].made

\* C20: get_json_validation_schema of a subtype builds the schema at the
\* first call only and returns that schema at every later call; no
\* subtype is given the schema cached for another; the required keys of
\* the schema of a subtype are the names of its non-optional properties.
NonOptionalNames(c) ==
    {props[classes[c].attrs[f]].name :
        f \in {g \in AttrNames : /\ g # "_p"
                                 /\ classes[c].attrs[g] # NoProp
                                 /\ ~props[classes[c].attrs[g]].optional}}

C20_SchemaCachedPerSubtype ==
    [][ev'.op = "schema" =>
          /\ schema_cache[ev'.cls] # NoSchema =>
                /\ ev'.schema = schema_cache[ev'.cls]
                /\ schema_cache' = schema_cache
          /\ schema_cache[ev'.cls] = NoSchema =>
                /\ schema_cache' = [schema_cache EXCEPT ![ev'.cls] = ev'.schema]
                /\ \A d \in ClassIds : schema_cache[d].id # ev'.schema.id
          /\ ev'.schema.required = NonOptionalNames(ev'.cls)
          /\ \A d \in ClassIds \ {ev'.cls} :
                schema_cache'[d] = NoSchema
                    \/ schema_cache'[d].id # ev'.schema.id]_vars

C20_Witness ==
    /\ ev.op = "schema" /\ ev.cls = "Sub"
    /\ schema_cache["Base"] # NoSchema
    /\ schema_cache["Sub"] = ev.schema
    /\ schema_cache["Base"].required # schema_cache["Sub"].required
    /\ schema_cache["Base"].required # {}

\* C21: run_on_all runs the task function once in each of the workers of
\* the pool, whatever the order in which the workers take the tasks, it
\* returns as many results as there are workers, and it returns once all
\* the workers have become free.
AllFree ==
    /\ pool.called /\ pool.earlier = 0
    /\ \A w \in Workers : pool.state[w] # "busy"

C21_OncePerWorker ==
    /\ [](\A w \in Workers : pool.runs[w] <= 1)
    /\ [](pool.returned =>
            /\ \A w \in Workers : pool.runs[w] = 1
            /\ pool.results = NumWorkers)
    /\ (AllFree ~> pool.returned)

C21_Witness ==
    /\ pool.returned
    /\ \A w \in Workers : pool.runs[w] = 1

\* C22: once a call of the Memoiser with arguments a has saved its
\* result, a later call with the same arguments, the code of the
\* function unchanged, returns the saved result and does not call the
\* function again.
SavedFor(a) ==
    /\ memo.files[a].exists
    /\ memo.files[a].func_and_args = pickle_function_and_arguments(a)
    /\ memo.files[a].code_hash = hash_function_code(memo.code)

C22_SavedResultLoaded ==
    [][\A a \in MemoArgs :
          (SavedFor(a) /\ memo'.code = memo.code
           /\ memo'.call.op = "call" /\ memo'.call.args = a)
             => /\ memo'.invoked = memo.invoked
                /\ ~memo'.call.invoked
                /\ memo'.call.ret = memo.files[a].result]_vars

\* C23: for an interval i made by a static constructor and a number v,
\* v in i.inverse() is true exactly when v in i is false, and neither
\* test raises.
C23_InverseComplement ==
    interval.in_it # "none" =>
        /\ interval.in_it \in {"True", "False"}
        /\ interval.in_inverse \in {"True", "False"}
        /\ (interval.in_inverse = "True") = (interval.in_it = "False")

\* C24: after a successful set of a value on a union property, get returns
\* the winning candidate's validated form of the value and get_as_raw_json
\* its JSON rendering, whatever the kind of the candidate.  Every leaf
\* candidate here stores the value as it is and renders it as itself.
C24_UnionGetReturnsSet ==
    (last.op = "set" /\ last.key = "u" /\ ~last.raised /\ last.val # Absent) =>
        /\ PropGet(Now, "u", Inst0) = last.val
        /\ get_as_raw_json(Now, "u", Inst0) = last.val

\* The values of a MapProxy, before and after a step
MapNow == Items(ArrHeap, map_proxy.key_map)
MapAfter == Items(After, map_proxy'.key_map)

\* The sub-property of the collections accepts the value
Accepted(v) == RawValidateValue(ArrHeap, "e", v).ok

AllAccepted ==
    /\ \A i \in 1..Len(key_list) : Accepted(ArrNow[i])
    /\ \A k \in Keys : MapNow[k] = Missing \/ Accepted(MapNow[k])

CollectionsUnchanged ==
    /\ key_list' = key_list
    /\ ArrAfter = ArrNow
    /\ map_proxy'.key_map = map_proxy.key_map
    /\ MapAfter = MapNow

\* C25 as stated: every element of an ArrayProxy and every value of a
\* MapProxy is a value the sub-property accepted, and an append, insert,
\* set at an index, map set or setdefault with a value the sub-property
\* rejects raises and leaves the collection with the same elements
C25_RejectedValueRaises ==
    /\ []AllAccepted
    /\ [][(last'.op \in {"append", "insert", "setitem", "setdefault"}
           /\ ~Accepted(last'.val))
          => last'.raised /\ CollectionsUnchanged]_vars

\* C25 amended: the same, where setdefault counts as a mutation only for a
\* key the map does not hold; for a key it holds, setdefault validates
\* nothing, does not raise and changes nothing
C25_RejectedValueRaisesOrKeyHeld ==
    /\ []AllAccepted
    /\ [][(last'.op \in {"append", "insert", "setitem", "setdefault"}
           /\ ~Accepted(last'.val))
          => /\ CollectionsUnchanged
             /\ last'.raised <=>
                   ~(last'.op = "setdefault"
                     /\ map_proxy.key_map[last'.key] # NoObj)]_vars

C25_Witness ==
    /\ last.op = "setdefault"
    /\ last.raised
    /\ last.val = JStr
    /\ last.key = "a"
    /\ MapNow["b"] \in Numbers
    /\ MapNow["a"] = Missing

\* C26: setting a property on one instance leaves the value of that
\* property (of every property) on the other instance as it was; writing
\* one element of an ArrayProxy changes no other element of it and no value
\* of the MapProxy over the same sub-property, and writing one key of the
\* MapProxy changes no other key of it and no element of the ArrayProxy
C26_SlotsIsolated ==
    [][/\ (last'.op = "set" /\ last'.owner # NoObj) =>
           \A b \in Live \ {last'.owner} : \A p \in Fields :
              /\ PropGet(After, p, b) = PropGet(Now, p, b)
              /\ get_as_raw_json(After, p, b) = get_as_raw_json(Now, p, b)
       /\ (last'.op = "setitem" /\ last'.key = "") =>
           /\ Len(ArrAfter) = Len(ArrNow)
           /\ Cardinality({i \in 1..Len(ArrNow) : ArrAfter[i] # ArrNow[i]}) <= 1
           /\ MapAfter = MapNow
       /\ (last'.op = "setitem" /\ last'.key # "") =>
           /\ \A k \in Keys \ {last'.key} : MapAfter[k] = MapNow[k]
           /\ ArrAfter = ArrNow]_vars

\* The union property was set on one instance to a value other than the
\* one the other instance holds
C26_Witness ==
    /\ last.op = "set"
    /\ last.key = "u"
    /\ ~last.raised
    /\ Live = Insts
    /\ PropGet(Now, "u", last.owner) = last.val
    /\ \E b \in Insts \ {last.owner} :
          PropGet(Now, "u", b) \in Vals \ {last.val}

C26_WitnessProxies ==
    /\ last.op = "setitem"
    /\ last.key # ""
    /\ ~last.raised
    /\ Len(key_list) = 2
    /\ MapNow["a"] \in Numbers /\ MapNow["b"] \in Numbers

\* C27: extend, in-place add and update are all-or-nothing: when an item
\* of the input is rejected the call raises, and a call that raises leaves
\* the collection with exactly the elements it held before
C27_BulkAllOrNothing ==
    [][/\ (last'.op = "extend"
           /\ \E i \in 1..Len(last'.list) : ~Accepted(last'.list[i]))
          => last'.raised
       /\ (last'.op = "update"
           /\ \E k \in Keys : last'.iv[k] # Missing /\ ~Accepted(last'.iv[k]))
          => last'.raised
       /\ (last'.op \in {"extend", "update"} /\ last'.raised)
          => CollectionsUnchanged]_vars

\* C28: in every state of a Configuration the serialised JSON has, for
\* each declared property with a present value, that property's own JSON
\* under its name(), and no key of the additional properties equals the
\* name() of a declared property
C28_BucketNeverShadows ==
    constructed =>
        \A f \in Fields :
            /\ key_map[Inst0][name(f)] = NoObj
            /\ PropGet(Now, f, Inst0) \notin {Absent, Unset}
               => _serialise_to_raw_json(Now, Inst0)[name(f)]
                      = get_as_raw_json(Now, f, Inst0)

\* C29: under every interleaving, the stack a thread works on is its own
\* and holds exactly the switch blocks the thread is inside, innermost
\* last: case() and default() act on the innermost block of the calling
\* thread, and leaving a block removes that block and no other
C29_OwnInnermostBlock ==
    \A t \in Threads :
        /\ switch.pc[t] = "idle" =>
              switch.context_stacks[t].list = switch.blocks[t]
        /\ switch.pc[t] = "append" =>
              /\ switch.stack[t] = t
              /\ Append(StackOf(switch, t), Top(switch.blocks[t]))
                     = switch.blocks[t]
        /\ switch.pc[t] \in {"case", "default", "pop"} =>
              /\ switch.stack[t] = t
              /\ StackOf(switch, t) = switch.blocks[t]
              /\ StackOf(switch, t) # <<>> => Top(StackOf(switch, t))[1] = t

\* One thread is about to test a case in its inner block while the other
\* thread is inside a block of its own
C29_Witness ==
    /\ switch.pc["t1"] = "case"
    /\ Len(switch.blocks["t1"]) = 2
    /\ Len(switch.blocks["t2"]) = 1
    /\ switch.pc["t2"] = "pop"
    /\ switch.managers[<<"t1", 1>>].matched

\* C30: after any sequence of set_forward and set_reverse calls the two
\* maps are exact inverses: forward maps k to v exactly when reverse maps
\* v to k, so no key and no value is in two pairs, the maps have the same
\* size, and no call fails
C30_MapsAreInverses ==
    /\ ~twd.raised
    /\ \A k \in TwdKeys, v \in TwdKeys :
          twd._forward_map[k] = v <=> twd._reverse_map[v] = k
    /\ Cardinality({k \in TwdKeys : twd._forward_map[k] # None})
         = Cardinality({v \in TwdKeys : twd._reverse_map[v] # None})

\* Two pairs are held, one of which took both its key and its value from
\* pairs set before
C30_Witness ==
    /\ twd.call = "set_reverse"
    /\ twd._forward_map[0] = 1
    /\ twd._forward_map[1] = 0
    /\ twd._forward_map[2] = None
    /\ twd._reverse_map[2] = None

====
